---- MODULE Spec2Model ----
(***************************************************************************)
(* Verification model of whspr-rs.                                         *)
(*                                                                         *)
(* Part A (specification Spec): the cross-invocation pid lock of           *)
(* src/main.rs.  Every process of Procs is one invocation of the default   *)
(* command; the lock file at pid_file_path() is shared state.  Each        *)
(* system call on the lock path (create_new, write, read, /proc lookup,    *)
(* kill, remove_file) is one step, so invocations interleave between them. *)
(*                                                                         *)
(* Part B (specification AppSpec): the session controller App::run of      *)
(* src/app.rs with its two collaborators that have ordering contracts, the *)
(* feedback thread of src/feedback.rs and the recorder of src/audio.rs.    *)
(* The control thread, the feedback thread, the capture callback and the   *)
(* hotkey monitor are separate processes of the model.                     *)
(***************************************************************************)
EXTENDS Integers, Sequences, FiniteSets, TLC

\* ------------------------------------------------------------------ bounds
NumProcs == 3
\* hotkey events the monitor produces in one run of App::run
MaxEvents == 4
\* samples the capture callback appends before the model stops counting
MaxSamples == 2
\* bytes of the model file on the server
MaxBytes == 3
\* sample rates handed to transcribe, in Hz: 0..MaxRate
MaxRate == 2
\* samples of the audio handed to transcribe: 0..MaxAudio
MaxAudio == 70
\* turns of the chunking loop the model follows
MaxTurns == 4
\* keys of the keyboard: 1..NumKeys
NumKeys == 3
\* input events the hotkey monitor reads
MaxKeyEvents == 5
\* turns of the try_wait loop the model counts
MaxPolls == 3
\* frames of the overlay the model counts
MaxFrames == 3

\* ------------------------------------------------------- program constants
\* for _ in 0..2   (acquire_or_signal_lock)
MaxAttemptsThree == 2 + 1
MaxAttempts == 2
\* const CHUNK_DURATION_SECS: f64 = 30.0; const OVERLAP_SECS: f64 = 1.0;
CHUNK_DURATION_SECS == 30
OVERLAP_SECS == 1

Procs == 1..NumProcs

VARIABLES
    lockFile,   \* the file at pid_file_path(): [exists, inode, content]
    pc,         \* position of every invocation
    acq,        \* locals and history of a running invocation, see AcqInit
    outcome,    \* how acquire_or_signal_lock returned
    received,   \* SIGUSR1 signals delivered to a running process
    dropped     \* how PidLock::drop went: "no" = has not run

lockVars == <<lockFile, pc, acq, outcome, received, dropped>>

VARIABLES
    state,        \* AppState of App::run
    appPc,        \* position of the control thread inside App::run
    hotkey_mode,  \* config.hotkey.mode
    hotkey_rx,    \* events in the hotkey channel
    hotkeyOpen,   \* the hotkey monitor still holds hotkey_tx
    combo_active, \* HotkeyMonitor::run, combo_active
    produced,     \* events the monitor has sent so far
    shutdown,     \* shutdown_rx has an unseen change to true
    enabled,      \* FeedbackPlayer.enabled
    cmds,         \* SoundCommands in the feedback channel
    senderOpen,   \* FeedbackPlayer.sender is Some
    fbPc,         \* position of the feedback thread
    fbCur,        \* the command the feedback thread is handling
    outStream,    \* the feedback thread's output stream is open
    doneSig,      \* a completion message waits in the caller's done channel
    startWait,    \* how the last play_start returned
    recStream,    \* AudioRecorder.stream: "none" or "live"
    buffer,       \* samples in AudioRecorder.buffer
    leaked,       \* a stream that stop() forgot is still running
    audio,        \* samples returned by the last recorder.stop()
    result,       \* what App::run returned: "none" while it runs
    sentIn,       \* for every event in hotkey_rx, when it was sent: SentTag
    abortSig,     \* the state in which the shutdown signal fired, or "none"
    sess,         \* what the current session has done so far, see SessInit
    ses           \* the one-shot session of app::run(config), see SesInit

VARIABLES
    dl,           \* download_model: files, response and locals, see DlInit
    ch,           \* WhisperLocal::transcribe: the chunking loop, see ChInit
    mon,          \* HotkeyMonitor::run: its locals and its channel, see MonInit
    wl,           \* TextInjector::inject and the wl-copy helper, see WlInit
    osd           \* the overlay program whspr-osd, see OverlayInit

toolVars == <<dl, ch, mon, wl, osd>>
\* the components a step of one component leaves alone
notDl == <<ch, mon, wl, osd>>
notCh == <<dl, mon, wl, osd>>
notMon == <<dl, ch, wl, osd>>
notWl == <<dl, ch, mon, osd>>
notOsd == <<dl, ch, mon, wl>>

histVars == <<result, sentIn, abortSig, sess>>

appVars == <<state, appPc, hotkey_mode, hotkey_rx, hotkeyOpen, combo_active,
             produced, shutdown, enabled, cmds, senderOpen, fbPc, fbCur,
             outStream, doneSig, startWait, recStream, buffer, leaked, audio,
             histVars, ses, toolVars>>

vars == <<lockVars, appVars>>

\* ----------------------------------------------------------- file system
\* content 0 is a file without a parseable pid (created, nothing written yet)
NoFile == [exists |-> FALSE, inode |-> 0, content |-> 0]

\* OpenOptions::new().write(true).create_new(true).open(path)
CreateNew(f, p) ==
    IF f.exists
    THEN [file |-> f, err |-> "AlreadyExists"]
    ELSE [file |-> [exists |-> TRUE, inode |-> p, content |-> 0], err |-> "none"]

\* writeln!(file, "{}", std::process::id()) : writes through the open handle,
\* so it reaches the path only while the path still names the same inode
WriteHandle(f, p) ==
    IF f.exists /\ f.inode = p THEN [f EXCEPT !.content = p] ELSE f

\* std::fs::remove_file(path): ENOENT when nothing is there
RemoveFileKeep(f) ==
    [file |-> f, err |-> "none"]
RemoveFile(f) ==
    [file |-> NoFile, err |-> IF f.exists THEN "none" ELSE "ENOENT"]

\* read_pid_from_lock: read_to_string(path).ok()?.trim().parse().ok()
read_pid_from_lock(f) ==
    IF f.exists THEN f.content ELSE 0

\* ------------------------------------------------------------- processes
AcquiringPcs == {"create", "write", "read", "validate", "kill", "remove"}
OwnerPcs     == {"owner", "app"}
ExitedPcs    == {"exit_ok", "exit_err"}

\* What a pid can denote after the invocation that had it is gone and the
\* system has handed the number out again:
\*   subcmd     a whspr-rs process of this user that runs no session
\*              (whspr-rs transcribe, whspr-rs model ...): same executable
\*   otheruser  a whspr-rs process of another user: /proc/{pid}/exe cannot be
\*              resolved, argv[0] has the same file name; kill gives EPERM
\*   foreign    any other program of this user
ReusedPcs    == {"subcmd", "otheruser", "foreign"}

Alive(p) == pc[p] \in AcquiringPcs \cup OwnerPcs

\* Path::new("/proc/{pid}").exists()
process_exists(pid) == pid \in Procs /\ (Alive(pid) \/ pc[pid] \in ReusedPcs)

\* the exe comparison (lines 52-61) succeeds for every process of this user
\* that runs the whspr-rs executable, the argv[0] comparison (lines 63-81) for
\* every process whose argv[0] has the executable's file name
pid_belongs_to_whspr(pid) ==
    IF ~process_exists(pid) THEN FALSE
    ELSE IF Alive(pid) \/ pc[pid] = "subcmd" THEN TRUE
    ELSE pc[pid] = "otheruser"

\* impl Drop for PidLock: let _ = remove_file(&self.path); the error is dropped
PidLockDropLeak(f) == [file |-> f, panicked |-> FALSE]
PidLockDropUnwrap(f) == [file |-> RemoveFile(f).file,
                         panicked |-> RemoveFile(f).err # "none"]
PidLockDrop(f) == [file |-> RemoveFile(f).file, panicked |-> FALSE]

\* The locals of acquire_or_signal_lock / signal_existing_instance and what
\* the invocation has seen so far.  They exist while the process runs and are
\* gone (back to AcqInit) once it has exited or was killed.
\*   attempts      create_new calls made so far (the loop counter)
\*   pid           pid returned by read_pid_from_lock, 0 = None
\*   removes       remove_file calls made inside signal_existing_instance
\*   firstSaw      what the first failed create attempt found at the path
\*   esrchAt       attempt on which kill() failed with ESRCH, 0 = never
\*   interfered    another invocation ran acquisition steps during this one's
\*   ownersAtStart processes that held a PidLock when this invocation started
\*                 and have held it ever since
AcqInit == [attempts |-> 0, pid |-> 0, removes |-> 0, firstSaw |-> "none",
            esrchAt |-> 0, interfered |-> FALSE, ownersAtStart |-> {}]

\* marks every other invocation that is inside acquire_or_signal_lock
Interfere(p, a) ==
    [q \in Procs |->
        IF q = p THEN a
        ELSE IF pc[q] \in AcquiringPcs THEN [acq[q] EXCEPT !.interfered = TRUE]
        ELSE acq[q]]

\* invocations are numbered in the order in which they start
StartedBefore(p) == \A q \in Procs : q < p => pc[q] # "init"

LiveOwners == {q \in Procs : pc[q] \in OwnerPcs}

LockInit ==
    /\ lockFile = NoFile
    /\ pc = [p \in Procs |-> "init"]
    /\ acq = [p \in Procs |-> AcqInit]
    /\ outcome = [p \in Procs |-> "none"]
    /\ received = [p \in Procs |-> 0]
    /\ dropped = [p \in Procs |-> "no"]

NoCmd == [sound |-> "none", rxAlive |-> FALSE]

\* The session of app::run(config), which run_default calls (main.rs:209) and
\* which is not part of the sources; its steps follow the state table of the
\* specification.
\*   pc        position of the control thread
\*   state     ControllerState
\*   capture   audio capture: "off", "on", "stopped"
\*   preload   the PreloadTask: "none", "running", "ok", "err"
\*   loads     ModelLoader.load calls made
\*   engine    what the join of the PreloadTask returned, "none" before
\*   overlay   the overlay process: "none", "nohandle", "running", "exited"
\*   osdExit   SIGTERM was sent to the overlay
\*   terms     terminate calls made on the overlay handle
\*   abort     an interrupt or termination request is pending
\*   wake      what the multiplexed wait resolved to
\*   cue       the stop cue was played
\*   called    TranscriptionEngine.transcribe was invoked
\*   result    what app::run(config) returns, "none" while it runs
SesInit == [pc |-> "start_cue", state |-> "Idle", capture |-> "off",
            preload |-> "none", loads |-> 0, engine |-> "none",
            overlay |-> "none", osdExit |-> FALSE, terms |-> 0,
            abort |-> FALSE, wake |-> "none", cue |-> FALSE,
            called |-> FALSE, result |-> "none"]

\* What is remembered of a hotkey event while it waits in hotkey_rx:
\*   busy   it was sent while the controller was Transcribing or Injecting
\*   late   it was sent after the shutdown signal had fired
SentTag == [busy |-> state \in {"Transcribing", "Injecting"}, late |-> shutdown]

\* What one session (from the Idle/Pressed arm to the next one) has done:
\*   stop       result of recorder.stop(): "none" = not called, "ok", "empty"
\*   text       result of backend.transcribe(): "none" = not called, "empty",
\*              "text", "err"
\*   calls      calls of injector.inject
\*   arg        the text the last call of inject was given
\*   spawn      the clipboard helper was spawned
\*   paste      a paste key event was emitted
\*   abortedIn  the state in which the shutdown branch of select! was taken
SessInit == [stop |-> "none", text |-> "none", calls |-> 0, arg |-> "none",
             spawn |-> FALSE, paste |-> FALSE, abortedIn |-> "none"]

\* App::run before HotkeyMonitor::new: FeedbackPlayer::new has spawned the
\* feedback thread
AppStart(mode, fb) ==
    /\ state = "Idle"
    /\ appPc = "monitor_new"
    /\ result = "none"
    /\ sentIn = <<>>
    /\ abortSig = "none"
    /\ sess = SessInit
    /\ hotkey_mode = mode
    /\ hotkey_rx = <<>>
    /\ hotkeyOpen = TRUE
    /\ combo_active = FALSE
    /\ produced = 0
    /\ shutdown = FALSE
    /\ enabled = fb
    /\ cmds = <<>>
    /\ senderOpen = TRUE
    /\ fbPc = "recv"
    /\ fbCur = NoCmd
    /\ outStream = FALSE
    /\ doneSig = FALSE
    /\ startWait = "none"
    /\ recStream = "none"
    /\ buffer = 0
    /\ leaked = FALSE
    /\ audio = 0
    /\ ses = SesInit

\* download_model (model.rs:178-289).  part and dest are the two files:
\*   part       length of the .part file, -1 when there is none
\*   dest       a file exists at the destination path
\*   destLen    its length
\*   kept       bytes of the .part file that the file at dest starts with
\*   pc         position of the running `model download`, "done" = returned
\*   existing_len, original_len   the locals of that name
\*   status     response.status(), 0 before the response
\*   valid      how validated_existing_len returned: "none", "ok", "err"
\*   body       bytes of the response body not yet read
\*   sent       bytes of the response body in all
\*   result     what download_model returned
DlInit == [part |-> -1, dest |-> FALSE, destLen |-> 0, kept |-> 0,
           pc |-> "start", existing_len |-> 0, original_len |-> 0,
           status |-> 0, valid |-> "none", body |-> 0, sent |-> 0,
           result |-> "none"]

\* WhisperLocal::transcribe
\*   pc         "idle", "start" (called), "loop" (at the while), "done"
\*   sample_rate, len   the arguments: the rate and audio.len()
\*   offset     the local of that name
\*   from, end  the last chunk handed to transcribe_chunk: audio[from..end]
\*   n          chunks handed to transcribe_chunk
\*   result     what transcribe returned
ChInit == [pc |-> "idle", sample_rate |-> 0, len |-> 0, offset |-> 0,
           from |-> 0, end |-> 0, n |-> 0, result |-> "none"]

\* HotkeyMonitor::run
\*   pc           "idle", "open" (called), "loop", "done"
\*   target_keys  self.target_keys
\*   held_keys, combo_active   the locals of that name
\*   ev           the event read last: [type, key, value], type "none" before
\*   out          the events sent on tx so far
\*   rxOpen       the receiver of tx is still there
\*   n            events read
\*   result       what run returned
NoEvent == [type |-> "none", key |-> 0, value |-> 0]
MonInit == [pc |-> "idle", target_keys |-> {}, held_keys |-> {},
            combo_active |-> FALSE, ev |-> NoEvent, out |-> <<>>,
            rxOpen |-> TRUE, n |-> 0, result |-> "none"]

\* TextInjector::inject, inject_sync and run_wl_copy_with_timeout
\*   pc        "idle", "inject" (called), "uinput", "spawn", "write", "poll",
\*             "paste", "done"
\*   text      the text is not empty
\*   helper    the wl-copy process: "none", "running", "exited"
\*   status    how it exited: "none", "ok", "fail", "killed"
\*   reaped    its exit status has been collected (try_wait, wait)
\*   written   write_all gave the text to its stdin
\*   deadline  "unset", "ahead", "passed": Instant::now() against deadline
\*   late      the helper exited after the deadline had passed
\*   polls     turns of the loop that found it running before the deadline
\*   copy      what run_wl_copy_with_timeout returned: "none", "Ok", "Err"
\*   why       the message of its error: "spawn", "write", "wait", "exit",
\*             "timeout"
\*   pasted    emit_paste_combo emitted key events
\*   result    what inject returned
WlInit == [pc |-> "idle", text |-> FALSE, helper |-> "none", status |-> "none",
           reaped |-> FALSE, written |-> FALSE, deadline |-> "unset",
           late |-> FALSE, polls |-> 0, copy |-> "none", why |-> "none",
           pasted |-> FALSE, result |-> "none"]

\* main of whspr-osd
\*   pc          "idle", "start" (handlers installed), "setup", "test" (at
\*               the while), "frame" (in the loop body), "cleanup", "exited"
\*   SHOULD_EXIT the flag of that name
\*   observed    the loop test has read SHOULD_EXIT as true
\*   running, configured   the fields of OsdState
\*   pidFile     the overlay's pid file exists
\*   surface, buffer   "none", "live", "destroyed"
\*   frames      frames presented
\*   after       frames presented after `observed`
\*   result      what main returned
OverlayInit == [pc |-> "idle", SHOULD_EXIT |-> FALSE, observed |-> FALSE,
                running |-> TRUE, configured |-> FALSE, pidFile |-> FALSE,
                surface |-> "none", buffer |-> "none", frames |-> 0,
                after |-> 0, result |-> "none"]

\* every component but the named one is at rest
ToolIdleExcept(tool) ==
    /\ tool # "osd" => osd = OverlayInit
    /\ tool # "wl" => wl = WlInit
    /\ tool # "dl" => dl = DlInit
    /\ tool # "ch" => ch = ChInit
    /\ tool # "mon" => mon = MonInit

ToolIdle == ToolIdleExcept("none")

Init ==
    /\ LockInit
    /\ AppStart("Toggle", TRUE)
    /\ ToolIdle

\* the process is gone: its locals and its pending signals go with it
Gone(p, newpc, res) ==
    /\ pc' = [pc EXCEPT ![p] = newpc]
    /\ outcome' = [outcome EXCEPT ![p] = res]
    /\ acq' = [q \in Procs |->
                 IF q = p THEN AcqInit
                 ELSE [acq[q] EXCEPT !.ownersAtStart = @ \ {p}]]
    /\ received' = [received EXCEPT ![p] = 0]

\* try_acquire_pid_lock, the create_new call (first or second loop iteration)
TryCreate(p) ==
    /\ pc[p] \in {"init", "create"}
    /\ pc[p] = "init" => StartedBefore(p)
    /\ acq[p].attempts < MaxAttempts
    /\ LET r == CreateNew(lockFile, p)
           a == [acq[p] EXCEPT !.attempts = @ + 1,
                               !.ownersAtStart =
                                   IF pc[p] = "init" THEN LiveOwners ELSE @]
       IN
       \/ /\ r.err = "none"
          /\ lockFile' = r.file
          /\ pc' = [pc EXCEPT ![p] = "write"]
          /\ acq' = Interfere(p, a)
          /\ UNCHANGED <<outcome, received>>
       \/ /\ r.err = "AlreadyExists"
          /\ pc' = [pc EXCEPT ![p] = "read"]
          /\ acq' = [acq EXCEPT ![p] = a]
          /\ UNCHANGED <<lockFile, outcome, received>>
       \/ \* any other error: Err(e) => return Err(e.into())
          /\ Gone(p, "exit_err", "ErrIo")
          /\ UNCHANGED lockFile
    /\ UNCHANGED dropped
    /\ UNCHANGED appVars

\* try_acquire_pid_lock, the writeln! and the Ok(PidLock) return
WritePid(p) ==
    /\ pc[p] = "write"
    /\ \/ /\ lockFile' = WriteHandle(lockFile, p)
          /\ pc' = [pc EXCEPT ![p] = "owner"]
          /\ outcome' = [outcome EXCEPT ![p] = "Owned"]
          /\ acq' = Interfere(p, acq[p])
          /\ UNCHANGED received
       \/ \* writeln! fails: the file stays behind, no PidLock exists
          /\ Gone(p, "exit_err", "ErrIo")
          /\ UNCHANGED lockFile
    /\ UNCHANGED dropped
    /\ UNCHANGED appVars

\* signal_existing_instance, read_pid_from_lock(path)
ReadPid(p) ==
    /\ pc[p] = "read"
    /\ LET pid == read_pid_from_lock(lockFile) IN
       /\ acq' = [acq EXCEPT ![p].pid = pid,
                             ![p].firstSaw =
                                 IF acq[p].attempts = 1 /\ pid = 0
                                 THEN "unreadable" ELSE @]
       /\ pc' = [pc EXCEPT ![p] = IF pid = 0 THEN "remove" ELSE "validate"]
    /\ UNCHANGED <<lockFile, outcome, received, dropped>>
    /\ UNCHANGED appVars

\* signal_existing_instance, pid_belongs_to_whspr(pid)
Validate(p) ==
    /\ pc[p] = "validate"
    /\ LET valid == pid_belongs_to_whspr(acq[p].pid) IN
       /\ pc' = [pc EXCEPT ![p] = IF valid THEN "kill" ELSE "remove"]
       /\ acq' = [acq EXCEPT ![p].pid = IF valid THEN @ ELSE 0,
                             ![p].firstSaw =
                                 IF acq[p].attempts = 1
                                 THEN (IF valid THEN "live" ELSE "dead") ELSE @]
    /\ UNCHANGED <<lockFile, outcome, received, dropped>>
    /\ UNCHANGED appVars

\* the errno of libc::kill(pid, SIGUSR1), "none" when it returns 0
KillErrno(pid) ==
    IF ~process_exists(pid) THEN "ESRCH"
    ELSE IF pc[pid] = "otheruser" THEN "EPERM"
    ELSE "none"

\* signal_existing_instance, libc::kill(pid, SIGUSR1)
KillSignalZero(p) ==
    /\ pc[p] = "kill"
    /\ LET errno == KillErrno(acq[p].pid) IN
       IF errno = "none"
       THEN /\ pc' = [pc EXCEPT ![p] = "exit_ok"]
            /\ outcome' = [outcome EXCEPT ![p] = "SignalSent"]
            /\ acq' = [acq EXCEPT ![p] = AcqInit]
            /\ received' = [received EXCEPT ![p] = 0]
       ELSE IF errno = "ESRCH"
       THEN /\ acq' = [acq EXCEPT ![p].esrchAt = acq[p].attempts, ![p].pid = 0]
            /\ pc' = [pc EXCEPT ![p] = "remove"]
            /\ UNCHANGED <<outcome, received>>
       ELSE Gone(p, "exit_err", "ErrSignal")
    /\ UNCHANGED <<lockFile, dropped>>
    /\ UNCHANGED appVars
KillRetryOnAnyError(p) ==
    /\ pc[p] = "kill"
    /\ IF KillErrno(acq[p].pid) = "none"
       THEN /\ pc' = [pc EXCEPT ![p] = "exit_ok"]
            /\ outcome' = [outcome EXCEPT ![p] = "SignalSent"]
            /\ acq' = [acq EXCEPT ![p] = AcqInit]
            /\ received' = [received EXCEPT ![acq[p].pid] = @ + 1, ![p] = 0]
       ELSE /\ acq' = [acq EXCEPT ![p].esrchAt = acq[p].attempts, ![p].pid = 0]
            /\ pc' = [pc EXCEPT ![p] = "remove"]
            /\ UNCHANGED <<outcome, received>>
    /\ UNCHANGED <<lockFile, dropped>>
    /\ UNCHANGED appVars
Kill(p) ==
    /\ pc[p] = "kill"
    /\ LET errno == KillErrno(acq[p].pid) IN
       IF errno = "none"
       THEN \* ret == 0: Ok(true), acquire returns Ok(None), run_default Ok(())
            /\ pc' = [pc EXCEPT ![p] = "exit_ok"]
            /\ outcome' = [outcome EXCEPT ![p] = "SignalSent"]
            /\ acq' = [acq EXCEPT ![p] = AcqInit]
            /\ received' = [received EXCEPT ![acq[p].pid] = @ + 1, ![p] = 0]
       ELSE IF errno = "ESRCH"
       THEN /\ acq' = [acq EXCEPT ![p].esrchAt = acq[p].attempts, ![p].pid = 0]
            /\ pc' = [pc EXCEPT ![p] = "remove"]
            /\ UNCHANGED <<outcome, received>>
       ELSE \* any other errno: Err(err.into()), returned through the `?`
            Gone(p, "exit_err", "ErrSignal")
    /\ UNCHANGED <<lockFile, dropped>>
    /\ UNCHANGED appVars

\* signal_existing_instance, let _ = remove_file(path); return Ok(false);
\* then the for loop either runs its next iteration or is exhausted
Remove(p) ==
    /\ pc[p] = "remove"
    /\ lockFile' = RemoveFile(lockFile).file
    /\ IF acq[p].attempts < MaxAttempts
       THEN /\ pc' = [pc EXCEPT ![p] = "create"]
            /\ acq' = Interfere(p, [acq[p] EXCEPT !.removes = @ + 1])
            /\ UNCHANGED <<outcome, received>>
       ELSE \* Err(WhsprError::Config("failed to acquire pid lock ..."))
            /\ pc' = [pc EXCEPT ![p] = "exit_err"]
            /\ outcome' = [outcome EXCEPT ![p] = "ErrConfig"]
            /\ acq' = Interfere(p, AcqInit)
            /\ received' = [received EXCEPT ![p] = 0]
    /\ UNCHANGED dropped
    /\ UNCHANGED appVars

\* leaving run_default with the PidLock in scope: the lock is dropped
ExitOwner(p, status) ==
    LET d == PidLockDrop(lockFile) IN
    /\ lockFile' = d.file
    /\ Gone(p, IF d.panicked THEN "exit_err" ELSE status, outcome[p])
    /\ dropped' = [dropped EXCEPT ![p] = IF d.panicked THEN "panic"
                                           ELSE IF lockFile.exists THEN "removed"
                                           ELSE "absent"]

\* run_default, Config::load(...)?
ConfigLoad(p) ==
    /\ pc[p] = "owner"
    /\ \/ /\ pc' = [pc EXCEPT ![p] = "app"]
          /\ UNCHANGED <<lockFile, acq, outcome, received, dropped>>
       \/ ExitOwner(p, "exit_err")
    /\ UNCHANGED appVars

\* run_default, app::run(config).await returns Ok or Err
AppReturn(p) ==
    /\ pc[p] = "app"
    /\ \E status \in ExitedPcs : ExitOwner(p, status)
    /\ UNCHANGED appVars

\* the process is killed (SIGKILL, power loss) after it created the file:
\* no destructor runs, the file stays behind
Crash(p) ==
    /\ pc[p] \in {"write"} \cup OwnerPcs
    /\ Gone(p, "killed", outcome[p])
    /\ UNCHANGED <<lockFile, dropped>>
    /\ UNCHANGED appVars

\* The pid of an invocation that is gone is given to a new process.  Only a
\* pid that the lock file or a signalling invocation still refers to matters.
PidReuse(p, kind) ==
    /\ pc[p] \in {"killed"} \cup ExitedPcs
    /\ \/ lockFile.exists /\ lockFile.content = p
       \/ \E q \in Procs : pc[q] \in {"validate", "kill"} /\ acq[q].pid = p
    /\ pc' = [pc EXCEPT ![p] = kind]
    /\ outcome' = [outcome EXCEPT ![p] = "none"]
    /\ dropped' = [dropped EXCEPT ![p] = "no"]
    /\ UNCHANGED <<lockFile, acq, received>>
    /\ UNCHANGED appVars

Next ==
    \E p \in Procs :
        \/ \E kind \in ReusedPcs : PidReuse(p, kind)
        \/ TryCreate(p)
        \/ WritePid(p)
        \/ ReadPid(p)
        \/ Validate(p)
        \/ Kill(p)
        \/ Remove(p)
        \/ ConfigLoad(p)
        \/ AppReturn(p)
        \/ Crash(p)

Spec == Init /\ [][Next]_vars

\* ------------------------------------------------------------------------
\* Part B: App::run, the feedback thread and the recorder
\* ------------------------------------------------------------------------
hkVars  == <<hotkey_rx, hotkeyOpen, combo_active, produced>>
fbVars  == <<cmds, senderOpen, fbPc, fbCur, outStream, doneSig>>
recVars == <<recStream, buffer, leaked>>
cfgVars == <<hotkey_mode, enabled>>

\* done.send(()) of the feedback thread: the message arrives when the caller
\* still holds the receiver, and is lost when the caller's wait has timed out
DoneSend(cmd, sig) == IF cmd.rxAlive THEN TRUE ELSE sig

\* HotkeyMonitor::new(&self.config.hotkey)?: on Ok the monitor task is spawned,
\* on Err run returns the error and hotkey_tx is dropped with it
HotkeyMonitorNew ==
    /\ appPc = "monitor_new"
    /\ \/ /\ appPc' = "select"
          /\ UNCHANGED <<hotkeyOpen, result>>
       \/ /\ appPc' = "returning"
          /\ hotkeyOpen' = FALSE
          /\ result' = "Err"
    /\ UNCHANGED <<state, hotkey_rx, combo_active, produced, shutdown,
                   startWait, audio, sentIn, abortSig, sess>>
    /\ UNCHANGED <<cfgVars, fbVars, recVars, lockVars, ses, toolVars>>

\* HotkeyMonitor::run, a press that completes the combination
HotkeyPress ==
    /\ hotkeyOpen /\ ~combo_active /\ produced < MaxEvents
    /\ appPc \notin {"monitor_new", "joining", "done"}
    /\ combo_active' = TRUE
    /\ hotkey_rx' = Append(hotkey_rx, "Pressed")
    /\ sentIn' = Append(sentIn, SentTag)
    /\ produced' = produced + 1
    /\ UNCHANGED <<state, appPc, hotkeyOpen, shutdown, startWait, audio>>
    /\ UNCHANGED <<cfgVars, fbVars, recVars, lockVars, ses, toolVars, result, abortSig, sess>>

\* HotkeyMonitor::run, a release that breaks the combination
HotkeyRelease ==
    /\ hotkeyOpen /\ combo_active /\ produced < MaxEvents
    /\ appPc \notin {"monitor_new", "joining", "done"}
    /\ combo_active' = FALSE
    /\ hotkey_rx' = Append(hotkey_rx, "Released")
    /\ sentIn' = Append(sentIn, SentTag)
    /\ produced' = produced + 1
    /\ UNCHANGED <<state, appPc, hotkeyOpen, shutdown, startWait, audio>>
    /\ UNCHANGED <<cfgVars, fbVars, recVars, lockVars, ses, toolVars, result, abortSig, sess>>

\* the monitor task ends with an error and drops hotkey_tx
MonitorFails ==
    /\ hotkeyOpen /\ appPc # "monitor_new"
    /\ hotkeyOpen' = FALSE
    /\ UNCHANGED <<state, appPc, hotkey_rx, combo_active, produced, shutdown,
                   startWait, audio>>
    /\ UNCHANGED <<cfgVars, fbVars, recVars, lockVars, ses, toolVars, histVars>>

\* the shutdown watch channel is set to true
ShutdownSignal ==
    /\ ~shutdown
    /\ appPc \notin {"returning", "joining", "done"}
    /\ shutdown' = TRUE
    /\ abortSig' = state
    /\ UNCHANGED <<state, appPc, startWait, audio, result, sentIn, sess>>
    /\ UNCHANGED <<hkVars, cfgVars, fbVars, recVars, lockVars, ses, toolVars>>

\* select!, shutdown_rx.changed() branch
SelectShutdown ==
    /\ appPc = "select" /\ shutdown
    /\ shutdown' = FALSE
    /\ appPc' = "returning"
    /\ result' = "Ok"
    /\ sess' = [sess EXCEPT !.abortedIn = state]
    /\ UNCHANGED <<state, startWait, audio, sentIn, abortSig>>
    /\ UNCHANGED <<hkVars, cfgVars, fbVars, recVars, lockVars, ses, toolVars>>

\* select!, hotkey_rx.recv() returned None
SelectClosed ==
    /\ appPc = "select" /\ hotkey_rx = <<>> /\ ~hotkeyOpen
    /\ appPc' = "returning"
    /\ result' = "Ok"
    /\ UNCHANGED <<state, shutdown, startWait, audio, sentIn, abortSig, sess>>
    /\ UNCHANGED <<hkVars, cfgVars, fbVars, recVars, lockVars, ses, toolVars>>

\* a match that stops a recording on Released in either mode
MatchArmReleaseStops(st, ev, mode) ==
    IF st = "Idle" /\ ev = "Pressed" THEN "start"
    ELSE IF st = "Recording" /\ ev = "Pressed" /\ mode = "Toggle" THEN "stop"
    ELSE IF st = "Recording" /\ ev = "Released" THEN "stop"
    ELSE "ignore"

\* the arm of match (&state, &event, &hotkey_mode) that is taken
MatchArm(st, ev, mode) ==
    IF st = "Idle" /\ ev = "Pressed" THEN "start"
    ELSE IF st = "Recording" /\ ev = "Pressed" /\ mode = "Toggle" THEN "stop"
    ELSE IF st = "Recording" /\ ev = "Released" /\ mode = "PushToTalk" THEN "stop"
    ELSE "ignore"

\* select!, hotkey_rx.recv() returned an event: the head of the matched arm
SelectEvent ==
    /\ appPc = "select" /\ hotkey_rx # <<>>
    /\ hotkey_rx' = Tail(hotkey_rx)
    /\ sentIn' = Tail(sentIn)
    /\ LET arm == MatchArm(state, Head(hotkey_rx), hotkey_mode) IN
       /\ sess' = IF arm = "start" THEN SessInit ELSE sess
       /\ state' = CASE arm = "start" -> "Recording"
                     [] arm = "stop" -> "Transcribing"
                     [] OTHER -> state
       /\ appPc' = CASE arm = "start" -> "play_start"
                     [] arm = "stop" -> "play_stop"
                     [] OTHER -> "select"
    /\ UNCHANGED <<hotkeyOpen, combo_active, produced, shutdown, startWait, audio>>
    /\ UNCHANGED <<cfgVars, fbVars, recVars, lockVars, ses, toolVars, result, abortSig>>

\* FeedbackPlayer::play_start / play_stop up to the send of the Play command
PlaySendNoWait(sound, waitPc, nextPc) ==
    /\ IF ~enabled
       THEN UNCHANGED <<cmds, doneSig>>
       ELSE /\ cmds' = Append(cmds, [sound |-> sound, rxAlive |-> FALSE])
            /\ doneSig' = FALSE
    /\ appPc' = nextPc
PlaySend(sound, waitPc, nextPc) ==
    IF ~enabled
    THEN /\ appPc' = nextPc
         /\ UNCHANGED <<cmds, doneSig>>
    ELSE /\ cmds' = Append(cmds, [sound |-> sound, rxAlive |-> TRUE])
         /\ doneSig' = FALSE
         /\ appPc' = waitPc

\* the caller gives up its receiver: the command it sent last loses its waiter
Abandon ==
    IF cmds # <<>>
    THEN /\ cmds' = [cmds EXCEPT ![Len(cmds)].rxAlive = FALSE]
         /\ UNCHANGED fbCur
    ELSE /\ fbCur' = [fbCur EXCEPT !.rxAlive = FALSE]
         /\ UNCHANGED cmds

\* rx.recv_timeout(Duration::from_secs(2)): "done" when the completion message
\* is there, "timeout" when 2 seconds pass without it
PlayWait(how, nextPc) ==
    /\ appPc' = nextPc
    /\ \/ /\ how = "done"
          /\ doneSig
          /\ doneSig' = FALSE
          /\ UNCHANGED <<cmds, fbCur>>
       \/ /\ how = "timeout"
          /\ ~doneSig
          /\ Abandon
          /\ UNCHANGED doneSig

\* feedback.play_start() of the Idle/Pressed arms
PlayStart ==
    /\ appPc = "play_start"
    /\ PlaySend("start", "wait_start", "rec_start")
    /\ startWait' = IF enabled THEN "none" ELSE "disabled"
    /\ UNCHANGED <<state, shutdown, audio, senderOpen, fbPc, fbCur, outStream>>
    /\ UNCHANGED <<hkVars, cfgVars, recVars, lockVars, ses, toolVars, histVars>>

WaitStart ==
    /\ appPc = "wait_start"
    /\ \E how \in {"done", "timeout"} :
        /\ PlayWait(how, "rec_start")
        /\ startWait' = how
    /\ UNCHANGED <<state, shutdown, audio, senderOpen, fbPc, outStream>>
    /\ UNCHANGED <<hkVars, cfgVars, recVars, lockVars, ses, toolVars, histVars>>

\* recorder.start() of the Idle/Pressed arms, and the arm's error branch
RecStart ==
    /\ appPc = "rec_start"
    /\ appPc' = "select"
    /\ \/ /\ buffer' = 0
          /\ recStream' = "live"
          /\ UNCHANGED state
       \/ /\ state' = "Idle"
          /\ buffer' \in {buffer, 0}
          /\ UNCHANGED recStream
    /\ UNCHANGED <<shutdown, startWait, audio, leaked>>
    /\ UNCHANGED <<hkVars, cfgVars, fbVars, lockVars, ses, toolVars, histVars>>

\* feedback.play_stop() of the Recording arms
PlayStop ==
    /\ appPc = "play_stop"
    /\ PlaySend("stop", "wait_stop", "rec_stop")
    /\ UNCHANGED <<state, shutdown, startWait, audio, senderOpen, fbPc, fbCur,
                   outStream>>
    /\ UNCHANGED <<hkVars, cfgVars, recVars, lockVars, ses, toolVars, histVars>>

WaitStop ==
    /\ appPc = "wait_stop"
    /\ \E how \in {"done", "timeout"} : PlayWait(how, "rec_stop")
    /\ UNCHANGED <<state, shutdown, startWait, audio, senderOpen, fbPc, outStream>>
    /\ UNCHANGED <<hkVars, cfgVars, recVars, lockVars, ses, toolVars, histVars>>

\* recorder.stop() of the Recording arms: the stream is paused and leaked, the
\* buffer is taken; an empty buffer is the "no audio data captured" error
RecStopNoCheck ==
    /\ appPc = "rec_stop"
    /\ recStream' = "none"
    /\ leaked' \in {leaked, TRUE}
    /\ audio' = buffer
    /\ buffer' = 0
    /\ appPc' = "transcribe"
    /\ sess' = [sess EXCEPT !.stop = IF buffer = 0 THEN "empty" ELSE "ok"]
    /\ UNCHANGED <<state, shutdown, startWait, result, sentIn, abortSig>>
    /\ UNCHANGED <<hkVars, cfgVars, fbVars, lockVars, ses, toolVars>>
RecStop ==
    /\ appPc = "rec_stop"
    /\ recStream' = "none"
    /\ leaked' \in {leaked, TRUE}
    /\ audio' = buffer
    /\ buffer' = 0
    /\ IF buffer = 0
       THEN /\ state' = "Idle"
            /\ appPc' = "select"
            /\ sess' = [sess EXCEPT !.stop = "empty"]
       ELSE /\ appPc' = "transcribe"
            /\ sess' = [sess EXCEPT !.stop = "ok"]
            /\ UNCHANGED state
    /\ UNCHANGED <<shutdown, startWait, result, sentIn, abortSig>>
    /\ UNCHANGED <<hkVars, cfgVars, fbVars, lockVars, ses, toolVars>>

\* self.backend.transcribe(&audio, sample_rate).await and its three arms
TranscribeNoEmptyArm ==
    /\ appPc = "transcribe"
    /\ \E res \in {"empty", "text", "err"} :
        /\ sess' = [sess EXCEPT !.text = res]
        /\ IF res # "err"
           THEN state' = "Injecting" /\ appPc' = "inject"
           ELSE state' = "Idle" /\ appPc' = "select"
    /\ UNCHANGED <<shutdown, startWait, audio, result, sentIn, abortSig>>
    /\ UNCHANGED <<hkVars, cfgVars, fbVars, recVars, lockVars, ses, toolVars>>
Transcribe ==
    /\ appPc = "transcribe"
    /\ \E res \in {"empty", "text", "err"} :
        /\ sess' = [sess EXCEPT !.text = res]
        /\ IF res = "text"
           THEN state' = "Injecting" /\ appPc' = "inject"
           ELSE state' = "Idle" /\ appPc' = "select"
    /\ UNCHANGED <<shutdown, startWait, audio, result, sentIn, abortSig>>
    /\ UNCHANGED <<hkVars, cfgVars, fbVars, recVars, lockVars, ses, toolVars>>

\* where TextInjector::inject stops: it ran to the end ("ok"), the uinput
\* device could not be built, wl-copy could not be spawned, wl-copy failed
\* after it was spawned, an emit of the paste combination failed before or
\* after the V key event
InjectHow == {"ok", "uinput_err", "spawn_err", "wl_copy_err", "emit_err_early",
              "emit_err_late"}

\* TextInjector::inject(text) with inject_sync: its result and side effects
injectNoGuard(text, how) ==
    CASE how \in {"uinput_err", "spawn_err"} ->
            [res |-> "Err", spawn |-> FALSE, paste |-> FALSE]
      [] how \in {"wl_copy_err", "emit_err_early"} ->
            [res |-> "Err", spawn |-> TRUE, paste |-> FALSE]
      [] how = "emit_err_late" ->
            [res |-> "Err", spawn |-> TRUE, paste |-> TRUE]
      [] OTHER -> [res |-> "Ok", spawn |-> TRUE, paste |-> TRUE]
inject(text, how) ==
    IF text = "empty"
    THEN [res |-> "Ok", spawn |-> FALSE, paste |-> FALSE]
    ELSE CASE how \in {"uinput_err", "spawn_err"} ->
                 [res |-> "Err", spawn |-> FALSE, paste |-> FALSE]
           [] how \in {"wl_copy_err", "emit_err_early"} ->
                 [res |-> "Err", spawn |-> TRUE, paste |-> FALSE]
           [] how = "emit_err_late" ->
                 [res |-> "Err", spawn |-> TRUE, paste |-> TRUE]
           [] OTHER -> [res |-> "Ok", spawn |-> TRUE, paste |-> TRUE]

\* injector.inject(&text).await: Ok and Err are only logged
Inject ==
    /\ appPc = "inject"
    /\ state' = "Idle"
    /\ appPc' = "select"
    /\ \E how \in InjectHow :
        LET r == inject(sess.text, how) IN
        sess' = [sess EXCEPT !.calls = @ + 1,
                             !.arg = sess.text,
                             !.spawn = @ \/ r.spawn,
                             !.paste = @ \/ r.paste]
    /\ UNCHANGED <<shutdown, startWait, audio, result, sentIn, abortSig>>
    /\ UNCHANGED <<hkVars, cfgVars, fbVars, recVars, lockVars, ses, toolVars>>

\* run returns: recorder is dropped, then FeedbackPlayer::drop takes the sender
AppRunReturn ==
    /\ appPc = "returning"
    /\ appPc' = "joining"
    /\ recStream' = "none"
    /\ senderOpen' = FALSE
    /\ UNCHANGED <<state, shutdown, startWait, audio, buffer, leaked, cmds, fbPc,
                   fbCur, outStream, doneSig>>
    /\ UNCHANGED <<hkVars, cfgVars, lockVars, ses, toolVars, histVars>>

\* FeedbackPlayer::drop, thread.join()
JoinFeedback ==
    /\ appPc = "joining" /\ fbPc = "exited"
    /\ appPc' = "done"
    /\ UNCHANGED <<state, shutdown, startWait, audio>>
    /\ UNCHANGED <<hkVars, cfgVars, fbVars, recVars, lockVars, ses, toolVars, histVars>>

\* a feedback thread that signals completion only after a sound was played
FbRecvSilentOnError ==
    /\ fbPc = "recv" /\ cmds # <<>>
    /\ cmds' = Tail(cmds)
    /\ \E how \in {"play", "open_err", "play_err"} :
        /\ how = "open_err" => ~outStream
        /\ outStream' = (outStream \/ how # "open_err")
        /\ IF how = "play"
           THEN /\ fbPc' = "playing"
                /\ fbCur' = Head(cmds)
                /\ UNCHANGED doneSig
           ELSE UNCHANGED <<fbPc, fbCur, doneSig>>
    /\ UNCHANGED <<state, appPc, shutdown, startWait, audio, senderOpen>>
    /\ UNCHANGED <<hkVars, cfgVars, recVars, lockVars, ses, toolVars, histVars>>

\* feedback thread: receiver.recv() returned a Play command; the output stream
\* is opened when there is none; then play_on_stream starts the sound ("play"),
\* or opening fails ("open_err"), or play_on_stream fails ("play_err")
FbRecv ==
    /\ fbPc = "recv" /\ cmds # <<>>
    /\ cmds' = Tail(cmds)
    /\ \E how \in {"play", "open_err", "play_err"} :
        /\ how = "open_err" => ~outStream
        /\ outStream' = (outStream \/ how # "open_err")
        /\ IF how = "play"
           THEN /\ fbPc' = "playing"
                /\ fbCur' = Head(cmds)
                /\ UNCHANGED doneSig
           ELSE /\ doneSig' = DoneSend(Head(cmds), doneSig)
                /\ UNCHANGED <<fbPc, fbCur>>
    /\ UNCHANGED <<state, appPc, shutdown, startWait, audio, senderOpen>>
    /\ UNCHANGED <<hkVars, cfgVars, recVars, lockVars, ses, toolVars, histVars>>

\* feedback thread: sink.sleep_until_end() returned, done.send(())
FbFinish ==
    /\ fbPc = "playing"
    /\ doneSig' = DoneSend(fbCur, doneSig)
    /\ fbCur' = NoCmd
    /\ fbPc' = "recv"
    /\ UNCHANGED <<state, appPc, shutdown, startWait, audio, cmds, senderOpen,
                   outStream>>
    /\ UNCHANGED <<hkVars, cfgVars, recVars, lockVars, ses, toolVars, histVars>>

\* a feedback thread that leaves its loop as soon as the sender is gone
FbExitDropsQueue ==
    /\ fbPc = "recv" /\ ~senderOpen
    /\ fbPc' = "exited"
    /\ UNCHANGED <<state, appPc, shutdown, startWait, audio, cmds, senderOpen,
                   fbCur, outStream, doneSig>>
    /\ UNCHANGED <<hkVars, cfgVars, recVars, lockVars, ses, toolVars, histVars>>

\* feedback thread: receiver.recv() returned Err, the sender is gone
FbExit ==
    /\ fbPc = "recv" /\ cmds = <<>> /\ ~senderOpen
    /\ fbPc' = "exited"
    /\ UNCHANGED <<state, appPc, shutdown, startWait, audio, cmds, senderOpen,
                   fbCur, outStream, doneSig>>
    /\ UNCHANGED <<hkVars, cfgVars, recVars, lockVars, ses, toolVars, histVars>>

\* the input stream's data callback appends to the shared buffer
CaptureCallback ==
    /\ (recStream = "live" \/ leaked) /\ buffer < MaxSamples
    /\ buffer' = buffer + 1
    /\ UNCHANGED <<state, appPc, shutdown, startWait, audio, recStream, leaked>>
    /\ UNCHANGED <<hkVars, cfgVars, fbVars, lockVars, ses, toolVars, histVars>>

\* the invocation that runs the session
AppOwner == CHOOSE p \in Procs : \A q \in Procs : p <= q

\* run_default after acquire_or_signal_lock returned Some(lock) and
\* Config::load returned Ok: the lock file holds the owner's pid
OwnerInit ==
    /\ lockFile = WriteHandle(CreateNew(NoFile, AppOwner).file, AppOwner)
    /\ pc = [p \in Procs |-> IF p = AppOwner THEN "app" ELSE "init"]
    /\ acq = [p \in Procs |-> AcqInit]
    /\ outcome = [p \in Procs |-> IF p = AppOwner THEN "Owned" ELSE "none"]
    /\ received = [p \in Procs |-> 0]
    /\ dropped = [p \in Procs |-> "no"]

\* run_default returns what the application returned: _pid_lock is dropped and
\* main's Result becomes the exit status
RunDefaultReturn ==
    /\ appPc = "done" /\ pc[AppOwner] = "app"
    /\ ExitOwner(AppOwner, IF result = "Ok" THEN "exit_ok" ELSE "exit_err")
    /\ UNCHANGED appVars

AppInit ==
    /\ OwnerInit
    /\ \E mode \in {"Toggle", "PushToTalk"} : \E fb \in BOOLEAN : AppStart(mode, fb)
    /\ ToolIdle

AppNext ==
    \/ HotkeyMonitorNew
    \/ RunDefaultReturn
    \/ HotkeyPress
    \/ HotkeyRelease
    \/ MonitorFails
    \/ ShutdownSignal
    \/ SelectShutdown
    \/ SelectClosed
    \/ SelectEvent
    \/ PlayStart
    \/ WaitStart
    \/ RecStart
    \/ PlayStop
    \/ WaitStop
    \/ RecStop
    \/ Transcribe
    \/ Inject
    \/ AppRunReturn
    \/ JoinFeedback
    \/ FbRecv
    \/ FbFinish
    \/ FbExit
    \/ CaptureCallback

AppSpec == AppInit /\ [][AppNext]_vars

\* ------------------------------------------------------------------------
\* The one-shot session.  run_default calls app::run(config) (main.rs:209),
\* which the sources do not contain; its steps are taken from the state table
\* and the ordering rules of the specification.  What it calls is taken from
\* the sources: WhisperLocal::new, the overlay program, PidLock::drop, and the
\* second invocations that signal the owner.

\* the variables of App::run, which the one-shot session leaves alone
daemonVars == <<state, appPc, shutdown, startWait, audio, hkVars, fbVars,
                recVars, cfgVars, histVars, toolVars>>

\* play the start cue; blocks until it has been played
SesStartCue ==
    /\ ses.pc = "start_cue"
    /\ ses' = [ses EXCEPT !.pc = "capture_start"]
    /\ UNCHANGED <<lockVars, daemonVars>>

\* start audio capture; a failure ends the session before Recording
SesCaptureStart ==
    /\ ses.pc = "capture_start"
    /\ \/ ses' = [ses EXCEPT !.capture = "on", !.pc = "spawn"]
       \/ ses' = [ses EXCEPT !.result = "Err", !.pc = "terminate"]
    /\ UNCHANGED <<lockVars, daemonVars>>

\* spawn() -> Option<Handle>: best effort, no handle is not an error
SesOverlaySpawn ==
    /\ ses.pc = "spawn"
    /\ \E h \in {"running", "nohandle"} :
        ses' = [ses EXCEPT !.overlay = h, !.pc = "preload"]
    /\ UNCHANGED <<lockVars, daemonVars>>

\* start the PreloadTask on a worker thread; the controller is in Recording
SesPreloadStart ==
    /\ ses.pc = "preload"
    /\ ses' = [ses EXCEPT !.preload = "running", !.loads = @ + 1,
                          !.state = "Recording", !.pc = "wait"]
    /\ UNCHANGED <<lockVars, daemonVars>>

\* the worker thread: WhisperLocal::new returns Ok(Self) or Err
PreloadWorker ==
    /\ pc[AppOwner] = "app"
    /\ ses.preload = "running"
    /\ \E r \in {"ok", "err"} : ses' = [ses EXCEPT !.preload = r]
    /\ UNCHANGED <<lockVars, daemonVars>>

\* an interrupt or a termination request reaches the owner
SesAbortSignal ==
    /\ pc[AppOwner] = "app"
    /\ ~ses.abort /\ ses.pc # "done"
    /\ ses' = [ses EXCEPT !.abort = TRUE]
    /\ UNCHANGED <<lockVars, daemonVars>>

\* the multiplexed wait of Recording resolves to one of the pending events
SesWait ==
    /\ ses.pc = "wait"
    /\ \E ev \in {"Toggle", "Abort"} :
        /\ ev = "Toggle" => received[AppOwner] > 0
        /\ ev = "Abort" => ses.abort
        /\ ses' = [ses EXCEPT !.wake = ev, !.pc = "terminate"]
    /\ UNCHANGED <<lockVars, daemonVars>>

\* terminate(handle): no-op without a handle, else SIGTERM and wait for exit
SesOverlayTerminateToggleOnly ==
    /\ ses.pc = "terminate"
    /\ IF ses.overlay \in {"running", "exited"} /\ ses.wake = "Toggle"
       THEN ses' = [ses EXCEPT !.terms = @ + 1, !.osdExit = TRUE,
                              !.pc = "osd_wait"]
       ELSE ses' = [ses EXCEPT !.pc = IF ses.result = "Err" THEN "teardown"
                                      ELSE IF ses.wake = "Abort" THEN "discard"
                                      ELSE "capture_stop"]
    /\ UNCHANGED <<lockVars, daemonVars>>
SesOverlayTerminate ==
    /\ ses.pc = "terminate"
    /\ IF ses.overlay \in {"running", "exited"}
       THEN ses' = [ses EXCEPT !.terms = @ + 1, !.osdExit = TRUE,
                              !.pc = "osd_wait"]
       ELSE ses' = [ses EXCEPT !.pc = IF ses.result = "Err" THEN "teardown"
                                      ELSE IF ses.wake = "Abort" THEN "discard"
                                      ELSE "capture_stop"]
    /\ UNCHANGED <<lockVars, daemonVars>>

\* the bounded wait of terminate ends: the overlay has exited, or time is up
SesOverlayWait ==
    /\ ses.pc = "osd_wait"
    /\ \E how \in {"exited", "timeout"} :
        /\ how = "exited" => ses.overlay = "exited"
        /\ ses' = [ses EXCEPT !.pc = IF ses.wake = "Abort" THEN "discard"
                                      ELSE "capture_stop"]
    /\ UNCHANGED <<lockVars, daemonVars>>

\* whspr-osd: main returns with an error during setup, or the loop sees
\* SHOULD_EXIT, which the SIGTERM handler has set, and main returns
OsdExit ==
    /\ ses.overlay = "running"
    /\ \E why \in {"signal", "error"} :
        /\ why = "signal" => ses.osdExit
        /\ ses' = [ses EXCEPT !.overlay = "exited"]
    /\ UNCHANGED <<lockVars, daemonVars>>

\* Abort: capture is stopped and what it recorded is discarded
SesDiscard ==
    /\ ses.pc = "discard"
    /\ ses' = [ses EXCEPT !.capture = "stopped", !.result = "Ok",
                          !.pc = "teardown"]
    /\ UNCHANGED <<lockVars, daemonVars>>

\* Toggle: capture is stopped and the buffer retrieved; without samples the
\* transcription step is skipped (the exit status of that path is not given)
SesCaptureStop ==
    /\ ses.pc = "capture_stop"
    /\ \/ ses' = [ses EXCEPT !.capture = "stopped", !.pc = "stop_cue"]
       \/ \E r \in {"Ok", "Err"} :
            ses' = [ses EXCEPT !.capture = "stopped", !.result = r,
                               !.pc = "teardown"]
    /\ UNCHANGED <<lockVars, daemonVars>>

\* play the stop cue; blocks until it has been played
SesStopCue ==
    /\ ses.pc = "stop_cue"
    /\ ses' = [ses EXCEPT !.cue = TRUE, !.pc = "join"]
    /\ UNCHANGED <<lockVars, daemonVars>>

\* await the PreloadTask: blocks while the load runs; a failed load is fatal
SesJoinNoWait ==
    /\ ses.pc = "join"
    /\ IF ses.preload # "err"
       THEN ses' = [ses EXCEPT !.engine = ses.preload,
                              !.state = "Transcribing", !.pc = "transcribe"]
       ELSE ses' = [ses EXCEPT !.engine = "err", !.result = "Err",
                              !.pc = "teardown"]
    /\ UNCHANGED <<lockVars, daemonVars>>
SesJoinReload ==
    /\ ses.pc = "join"
    /\ ses.preload \in {"ok", "err"}
    /\ IF ses.preload = "ok"
       THEN ses' = [ses EXCEPT !.engine = "ok", !.loads = @ + 1,
                              !.state = "Transcribing", !.pc = "transcribe"]
       ELSE ses' = [ses EXCEPT !.engine = "err", !.result = "Err",
                              !.pc = "teardown"]
    /\ UNCHANGED <<lockVars, daemonVars>>
SesJoin ==
    /\ ses.pc = "join"
    /\ ses.preload \in {"ok", "err"}
    /\ IF ses.preload = "ok"
       THEN ses' = [ses EXCEPT !.engine = "ok", !.state = "Transcribing",
                              !.pc = "transcribe"]
       ELSE ses' = [ses EXCEPT !.engine = "err", !.result = "Err",
                              !.pc = "teardown"]
    /\ UNCHANGED <<lockVars, daemonVars>>

\* transcribe(samples, sample_rate): text, empty text, or a failure
SesTranscribe ==
    /\ ses.pc = "transcribe"
    /\ \E r \in {"text", "empty", "err"} :
        ses' = [ses EXCEPT !.called = TRUE,
                           !.state = IF r = "text" THEN "Injecting" ELSE @,
                           !.result = IF r = "text" THEN @
                                      ELSE IF r = "empty" THEN "Ok" ELSE "Err",
                           !.pc = IF r = "text" THEN "inject" ELSE "teardown"]
    /\ UNCHANGED <<lockVars, daemonVars>>

\* deliver(text): a failure is logged and changes nothing
SesInject ==
    /\ ses.pc = "inject"
    /\ ses' = [ses EXCEPT !.result = "Ok", !.pc = "teardown"]
    /\ UNCHANGED <<lockVars, daemonVars>>

SesTeardown ==
    /\ ses.pc = "teardown"
    /\ ses' = [ses EXCEPT !.state = "Terminated", !.pc = "done"]
    /\ UNCHANGED <<lockVars, daemonVars>>

\* run_default returns what app::run(config) returned; _pid_lock is dropped
SesReturn ==
    /\ ses.pc = "done" /\ pc[AppOwner] = "app"
    /\ ExitOwner(AppOwner, IF ses.result = "Ok" THEN "exit_ok" ELSE "exit_err")
    /\ UNCHANGED appVars

SessionInit ==
    /\ OwnerInit
    /\ AppStart("Toggle", FALSE)
    /\ ToolIdle

SessionNext ==
    \/ SesStartCue
    \/ SesCaptureStart
    \/ SesOverlaySpawn
    \/ SesPreloadStart
    \/ PreloadWorker
    \/ SesAbortSignal
    \/ SesWait
    \/ SesOverlayTerminate
    \/ SesOverlayWait
    \/ OsdExit
    \/ SesDiscard
    \/ SesCaptureStop
    \/ SesStopCue
    \/ SesJoin
    \/ SesTranscribe
    \/ SesInject
    \/ SesTeardown
    \/ SesReturn
    \/ \E p \in Procs \ {AppOwner} :
        \/ TryCreate(p)
        \/ WritePid(p)
        \/ ReadPid(p)
        \/ Validate(p)
        \/ Kill(p)
        \/ Remove(p)

SessionSpec == SessionInit /\ [][SessionNext]_vars

\* ------------------------------------------------------------------------
\* `whspr-rs model download`: download_model and validated_existing_len

\* everything but the variables of the tools below
coreVars == <<lockVars, state, appPc, shutdown, startWait, audio, hkVars,
              fbVars, recVars, cfgVars, histVars, ses>>

\* the statuses a server answers with; is_success() is 200..=299
Statuses == {200, 204, 206, 404, 416, 500}
is_success(status) == status >= 200 /\ status <= 299

\* validated_existing_len(existing_len, status): Ok(len) or Err
validated_existing_len_keep(existing_len, status) ==
    IF existing_len > 0
    THEN IF status \in {206, 200} THEN [ok |-> TRUE, len |-> existing_len]
         ELSE [ok |-> FALSE, len |-> 0]
    ELSE IF is_success(status) THEN [ok |-> TRUE, len |-> 0]
    ELSE [ok |-> FALSE, len |-> 0]
validated_existing_len(existing_len, status) ==
    IF existing_len > 0
    THEN IF status = 206 THEN [ok |-> TRUE, len |-> existing_len]
         ELSE IF status = 200 THEN [ok |-> TRUE, len |-> 0]
         ELSE [ok |-> FALSE, len |-> 0]
    ELSE IF is_success(status) THEN [ok |-> TRUE, len |-> 0]
    ELSE [ok |-> FALSE, len |-> 0]

\* an Err(WhsprError::Download(..)) return: nothing is cleaned up
DlErr == [dl EXCEPT !.pc = "done", !.result = "Err"]

\* dest.exists() returns early; else existing_len is read from the .part file
\* (metadata(..).unwrap_or(0)) and create_dir_all runs
DlStart ==
    /\ dl.pc = "start"
    /\ IF dl.dest
       THEN dl' = [dl EXCEPT !.pc = "done", !.result = "Ok"]
       ELSE \/ \E len \in {IF dl.part > 0 THEN dl.part ELSE 0, 0} :
                dl' = [dl EXCEPT !.existing_len = len, !.original_len = 0,
                                 !.status = 0, !.valid = "none",
                                 !.body = 0, !.sent = 0,
                                 !.pc = "send"]
            \/ dl' = DlErr
    /\ UNCHANGED <<coreVars, notDl>>

\* request.send().await: an error, or a response.  With a Range header the
\* server answers 206 with the rest of the file, or ignores the header; any
\* status can come with any body the model's bounds allow
DlSend ==
    /\ dl.pc = "send"
    /\ \/ dl' = DlErr
       \/ \E st \in Statuses : \E n \in 0..MaxBytes :
            /\ st = 206 => (dl.existing_len > 0 /\ n = MaxBytes - dl.existing_len)
            /\ st = 200 => n = MaxBytes
            /\ st \notin {200, 206} => n <= 1
            /\ dl' = [dl EXCEPT !.status = st, !.body = n, !.sent = n,
                                !.pc = "validate"]
    /\ UNCHANGED <<coreVars, notDl>>

\* original_len = existing_len; existing_len = validated_existing_len(..)?
DlValidate ==
    /\ dl.pc = "validate"
    /\ LET r == validated_existing_len(dl.existing_len, dl.status) IN
       IF r.ok
       THEN dl' = [dl EXCEPT !.original_len = dl.existing_len,
                             !.existing_len = r.len, !.valid = "ok",
                             !.pc = "open"]
       ELSE dl' = [DlErr EXCEPT !.original_len = dl.existing_len,
                                !.valid = "err"]
    /\ UNCHANGED <<coreVars, notDl>>

\* open_opts.create(true), append(true) or write(true).truncate(true)
DlOpenAlwaysAppend ==
    /\ dl.pc = "open"
    /\ \/ dl' = [dl EXCEPT !.part = IF dl.part > 0 THEN dl.part ELSE 0,
                            !.pc = "stream"]
       \/ dl' = DlErr
    /\ UNCHANGED <<coreVars, notDl>>
DlOpen ==
    /\ dl.pc = "open"
    /\ \/ dl' = [dl EXCEPT !.part = IF dl.existing_len > 0 /\ dl.part > 0
                                     THEN dl.part ELSE 0,
                            !.pc = "stream"]
       \/ dl' = DlErr
    /\ UNCHANGED <<coreVars, notDl>>

\* one turn of the while-let loop: a chunk is written, or the chunk or the
\* write is an error
DlChunk ==
    /\ dl.pc = "stream" /\ dl.body > 0
    /\ \/ dl' = [dl EXCEPT !.part = @ + 1, !.body = @ - 1]
       \/ dl' = DlErr
    /\ UNCHANGED <<coreVars, notDl>>

\* the stream has ended: file.flush(), drop(file)
DlFlush ==
    /\ dl.pc = "stream" /\ dl.body = 0
    /\ \/ dl' = [dl EXCEPT !.pc = "rename"]
       \/ dl' = DlErr
    /\ UNCHANGED <<coreVars, notDl>>

\* std::fs::rename(&part_path, &dest)
DlRename ==
    /\ dl.pc = "rename"
    /\ \/ dl' = [dl EXCEPT !.dest = TRUE, !.destLen = dl.part,
                            !.kept = dl.existing_len, !.part = -1,
                            !.pc = "done", !.result = "Ok"]
       \/ dl' = DlErr
    /\ UNCHANGED <<coreVars, notDl>>

\* the process is interrupted (Ctrl-C, kill) while it downloads
DlKilled ==
    /\ dl.pc \notin {"start", "done"}
    /\ dl' = [dl EXCEPT !.pc = "done", !.result = "Killed"]
    /\ UNCHANGED <<coreVars, notDl>>

\* the command is run again
DlAgain ==
    /\ dl.pc = "done"
    /\ dl' = [DlInit EXCEPT !.part = dl.part, !.dest = dl.dest,
                          !.destLen = dl.destLen, !.kept = dl.kept]
    /\ UNCHANGED <<coreVars, notDl>>

\* a .part file of some length may be there when the first command starts
DownloadInit ==
    /\ LockInit
    /\ AppStart("Toggle", FALSE)
    /\ ToolIdleExcept("dl")
    /\ \E len \in -1..MaxBytes : dl = [DlInit EXCEPT !.part = len]

DownloadNext ==
    \/ DlStart
    \/ DlSend
    \/ DlValidate
    \/ DlOpen
    \/ DlChunk
    \/ DlFlush
    \/ DlRename
    \/ DlKilled
    \/ DlAgain

DownloadSpec == DownloadInit /\ [][DownloadNext]_vars

\* ------------------------------------------------------------------------
\* Part E (specification ChunkSpec): the chunking of WhisperLocal::transcribe
\* of src/transcribe.rs, for every sample rate 0..MaxRate and every audio
\* length 0..MaxAudio.
\* ------------------------------------------------------------------------
\* (CHUNK_DURATION_SECS * sample_rate as f64) as usize: exact, the product of
\* an integer-valued f64 and a u32 is far below 2^53
chunk_size(sample_rate) == CHUNK_DURATION_SECS * sample_rate
overlap(sample_rate) == OVERLAP_SECS * sample_rate

Min(a, b) == IF a <= b THEN a ELSE b

\* the call up to the if: short audio is one transcribe_chunk(&audio)
ChStart ==
    /\ ch.pc = "start"
    /\ IF ch.len <= chunk_size(ch.sample_rate)
       THEN \E r \in {"Ok", "Err"} :
              ch' = [ch EXCEPT !.pc = "done", !.from = 0, !.end = ch.len,
                               !.n = 1, !.result = r]
       ELSE ch' = [ch EXCEPT !.pc = "loop", !.offset = 0]
    /\ UNCHANGED <<coreVars, notCh>>

\* one turn of `while offset < audio.len()`: the chunk audio[offset..end] is
\* transcribed (an error returns), the loop breaks at the end of the audio
\* and otherwise goes on from end - overlap
ChTurn ==
    /\ ch.pc = "loop"
    /\ ch.n < MaxTurns
    /\ IF ch.offset < ch.len
       THEN LET end == Min(ch.offset + chunk_size(ch.sample_rate), ch.len)
                c == [ch EXCEPT !.from = ch.offset, !.end = end, !.n = @ + 1]
            IN  \/ ch' = [c EXCEPT !.pc = "done", !.result = "Err"]
                \/ IF end = ch.len
                   THEN ch' = [c EXCEPT !.pc = "done", !.result = "Ok"]
                   ELSE ch' = [c EXCEPT !.offset = end - overlap(ch.sample_rate)]
       ELSE ch' = [ch EXCEPT !.pc = "done", !.result = "Ok"]
    /\ UNCHANGED <<coreVars, notCh>>

\* transcribe is called with some audio at some sample rate
ChunkInit ==
    /\ LockInit
    /\ AppStart("Toggle", FALSE)
    /\ ToolIdleExcept("ch")
    /\ \E rate \in 0..MaxRate : \E len \in 0..MaxAudio :
         ch = [ChInit EXCEPT !.pc = "start", !.sample_rate = rate, !.len = len]

ChunkNext ==
    \/ ChStart
    \/ ChTurn

ChunkSpec == ChunkInit /\ [][ChunkNext]_vars

\* ------------------------------------------------------------------------
\* Part F (specification HotkeySpec): HotkeyMonitor::run of src/hotkey.rs.
\* The keyboard delivers any sequence of events: presses, releases and
\* repeats of any key, in any order, and events that are not key events.
\* ------------------------------------------------------------------------
Keys == 1..NumKeys
\* event.value(): 0=release, 1=press, 2=repeat
KeyValues == {0, 1, 2}
InputEvents ==
    [type : {"KEY"}, key : Keys, value : KeyValues]
        \cup {[type |-> "OTHER", key |-> 0, value |-> 0]}

\* find_keyboard_device()? and into_event_stream()?
MonOpen ==
    /\ mon.pc = "open"
    /\ \/ mon' = [mon EXCEPT !.pc = "loop"]
       \/ mon' = [mon EXCEPT !.pc = "done", !.result = "Err"]
    /\ UNCHANGED <<coreVars, notMon>>

\* tx.send(e).await.is_err() => break
MonSend(m, e) ==
    IF m.rxOpen
    THEN [m EXCEPT !.out = Append(@, e)]
    ELSE [m EXCEPT !.pc = "done", !.result = "Ok"]

\* a press sends Pressed whenever all target keys are held
MonEventNoFlag(ev) ==
    /\ mon.pc = "loop"
    /\ mon.n < MaxKeyEvents
    /\ LET m == [mon EXCEPT !.ev = ev, !.n = @ + 1] IN
       IF ev.type # "KEY" \/ ev.key \notin mon.target_keys
       THEN mon' = m
       ELSE IF ev.value = 1
       THEN LET held == mon.held_keys \cup {ev.key} IN
            IF mon.target_keys \subseteq held
            THEN mon' = MonSend([m EXCEPT !.held_keys = held,
                                          !.combo_active = TRUE], "Pressed")
            ELSE mon' = [m EXCEPT !.held_keys = held]
       ELSE IF ev.value = 0
       THEN LET held == mon.held_keys \ {ev.key} IN
            IF mon.combo_active /\ ~(mon.target_keys \subseteq held)
            THEN mon' = MonSend([m EXCEPT !.held_keys = held,
                                          !.combo_active = FALSE], "Released")
            ELSE mon' = [m EXCEPT !.held_keys = held]
       ELSE mon' = m
    /\ UNCHANGED <<coreVars, notMon>>

\* one turn of the loop: next_event, the two `continue`s and the match
MonEvent(ev) ==
    /\ mon.pc = "loop"
    /\ mon.n < MaxKeyEvents
    /\ LET m == [mon EXCEPT !.ev = ev, !.n = @ + 1] IN
       IF ev.type # "KEY" \/ ev.key \notin mon.target_keys
       THEN mon' = m
       ELSE IF ev.value = 1
       THEN LET held == mon.held_keys \cup {ev.key} IN
            IF ~mon.combo_active /\ mon.target_keys \subseteq held
            THEN mon' = MonSend([m EXCEPT !.held_keys = held,
                                          !.combo_active = TRUE], "Pressed")
            ELSE mon' = [m EXCEPT !.held_keys = held]
       ELSE IF ev.value = 0
       THEN LET held == mon.held_keys \ {ev.key} IN
            IF mon.combo_active /\ ~(mon.target_keys \subseteq held)
            THEN mon' = MonSend([m EXCEPT !.held_keys = held,
                                          !.combo_active = FALSE], "Released")
            ELSE mon' = [m EXCEPT !.held_keys = held]
       ELSE mon' = m
    /\ UNCHANGED <<coreVars, notMon>>

\* next_event().await is an error: run returns it
MonReadError ==
    /\ mon.pc = "loop"
    /\ mon' = [mon EXCEPT !.pc = "done", !.result = "Err"]
    /\ UNCHANGED <<coreVars, notMon>>

\* the receiving end of tx is dropped
MonRxClose ==
    /\ mon.pc = "loop"
    /\ mon.rxOpen
    /\ mon' = [mon EXCEPT !.rxOpen = FALSE]
    /\ UNCHANGED <<coreVars, notMon>>

\* HotkeyMonitor::new gave some set of target keys; run starts
HotkeyInit ==
    /\ LockInit
    /\ AppStart("Toggle", FALSE)
    /\ ToolIdleExcept("mon")
    /\ \E t \in SUBSET Keys :
         mon = [MonInit EXCEPT !.pc = "open", !.target_keys = t]

HotkeyNext ==
    \/ MonOpen
    \/ \E ev \in InputEvents : MonEvent(ev)
    \/ MonReadError
    \/ MonRxClose

HotkeySpec == HotkeyInit /\ [][HotkeyNext]_vars

\* ------------------------------------------------------------------------
\* Part G (specification InjectSpec): TextInjector::inject of src/inject.rs
\* with the wl-copy helper as a process of its own.  The helper exits when
\* it chooses to, with either status; the deadline passes when it passes.
\* ------------------------------------------------------------------------
\* an Err return of run_wl_copy_with_timeout, passed on by inject_sync's `?`
WlCopyErr(w, why) ==
    [w EXCEPT !.copy = "Err", !.why = why, !.pc = "done", !.result = "Err"]

\* inject: the empty text returns Ok at once, any other goes to inject_sync
WlInject ==
    /\ wl.pc = "inject"
    /\ IF wl.text
       THEN wl' = [wl EXCEPT !.pc = "uinput"]
       ELSE wl' = [wl EXCEPT !.pc = "done", !.result = "Ok"]
    /\ UNCHANGED <<coreVars, notWl>>

\* inject_sync: VirtualDevice::builder()? .. build()?
WlUinput ==
    /\ wl.pc = "uinput"
    /\ \/ wl' = [wl EXCEPT !.pc = "spawn"]
       \/ wl' = [wl EXCEPT !.pc = "done", !.result = "Err"]
    /\ UNCHANGED <<coreVars, notWl>>

\* Command::new(wl_copy_bin) .. .spawn()?
WlSpawn ==
    /\ wl.pc = "spawn"
    /\ \/ wl' = [wl EXCEPT !.helper = "running", !.pc = "write"]
       \/ wl' = WlCopyErr(wl, "spawn")
    /\ UNCHANGED <<coreVars, notWl>>

\* the helper process exits by itself
HelperExit(st) ==
    /\ wl.helper = "running"
    /\ wl.pc \in {"write", "poll"}
    /\ wl' = [wl EXCEPT !.helper = "exited", !.status = st,
                        !.late = (wl.deadline = "passed")]
    /\ UNCHANGED <<coreVars, notWl>>

\* stdin.write_all(text.as_bytes())?: an error (a helper that has exited or
\* has closed its stdin gives EPIPE) returns at once; then the pipe is
\* closed and deadline = now + timeout
WlWrite ==
    /\ wl.pc = "write"
    /\ \/ /\ wl.helper = "running"
          /\ wl' = [wl EXCEPT !.written = TRUE, !.deadline = "ahead",
                              !.pc = "poll"]
       \/ wl' = WlCopyErr(wl, "write")
    /\ UNCHANGED <<coreVars, notWl>>

\* Instant::now() reaches the deadline
DeadlinePasses ==
    /\ wl.pc = "poll"
    /\ wl.deadline = "ahead"
    /\ wl' = [wl EXCEPT !.deadline = "passed"]
    /\ UNCHANGED <<coreVars, notWl>>

\* the end of run_wl_copy_with_timeout once try_wait gave a status
WlStatus(w) ==
    IF w.status = "ok"
    THEN [w EXCEPT !.copy = "Ok", !.pc = "paste"]
    ELSE WlCopyErr(w, "exit")

\* a loop that takes every exit status for success
WlPollAnyStatus ==
    /\ wl.pc = "poll"
    /\ \/ wl' = WlCopyErr(wl, "wait")
       \/ /\ wl.helper = "exited"
          /\ wl' = [wl EXCEPT !.reaped = TRUE, !.copy = "Ok", !.pc = "paste"]
       \/ /\ wl.helper = "running"
          /\ IF wl.deadline = "passed"
             THEN wl' = WlCopyErr([wl EXCEPT !.helper = "exited",
                                            !.status = "killed",
                                            !.reaped = TRUE], "timeout")
             ELSE /\ wl.polls < MaxPolls
                  /\ wl' = [wl EXCEPT !.polls = @ + 1]
    /\ UNCHANGED <<coreVars, notWl>>

\* one turn of the loop: try_wait()? (an error returns), a status leaves the
\* loop, and a helper that still runs is killed and waited for when the
\* deadline has passed, else sleep(10 ms)
WlPoll ==
    /\ wl.pc = "poll"
    /\ \/ wl' = WlCopyErr(wl, "wait")
       \/ /\ wl.helper = "exited"
          /\ wl' = WlStatus([wl EXCEPT !.reaped = TRUE])
       \/ /\ wl.helper = "running"
          /\ IF wl.deadline = "passed"
             THEN wl' = WlCopyErr([wl EXCEPT !.helper = "exited",
                                            !.status = "killed",
                                            !.reaped = TRUE], "timeout")
             ELSE /\ wl.polls < MaxPolls
                  /\ wl' = [wl EXCEPT !.polls = @ + 1]
    /\ UNCHANGED <<coreVars, notWl>>

\* sleep(180 ms); emit_paste_combo(&mut device)?: an emit that fails returns
\* the error, after the first one with part of the combination emitted
WlPaste ==
    /\ wl.pc = "paste"
    /\ \/ wl' = [wl EXCEPT !.pasted = TRUE, !.pc = "done", !.result = "Ok"]
       \/ \E some \in BOOLEAN :
            wl' = [wl EXCEPT !.pasted = some, !.pc = "done", !.result = "Err"]
    /\ UNCHANGED <<coreVars, notWl>>

\* inject is called with some text
InjectInit ==
    /\ LockInit
    /\ AppStart("Toggle", FALSE)
    /\ ToolIdleExcept("wl")
    /\ \E t \in BOOLEAN : wl = [WlInit EXCEPT !.pc = "inject", !.text = t]

InjectNext ==
    \/ WlInject
    \/ WlUinput
    \/ WlSpawn
    \/ \E st \in {"ok", "fail"} : HelperExit(st)
    \/ WlWrite
    \/ DeadlinePasses
    \/ WlPoll
    \/ WlPaste

InjectSpec == InjectInit /\ [][InjectNext]_vars

\* ------------------------------------------------------------------------
\* Part H (specification OverlaySpec): main of src/bin/whspr-osd.rs with the
\* signal handler as a step of its own.  The compositor configures or closes
\* the surface when it chooses to, and any Wayland call that returns a
\* Result can fail.
\* ------------------------------------------------------------------------
\* main returns an error through `?`, or panics in an expect
OverlayErr(o) == [o EXCEPT !.pc = "exited", !.result = "Err"]

\* let _ = std::fs::write(pid_file_path(), ..)
OverlayStart ==
    /\ osd.pc = "start"
    /\ \E written \in BOOLEAN :
         osd' = [osd EXCEPT !.pidFile = written, !.pc = "setup"]
    /\ UNCHANGED <<coreVars, notOsd>>

\* connect_to_env()?, roundtrip()?, the surface and the layer surface,
\* roundtrip()?, memfd_create, set_len()?, create_pool
OverlaySetup ==
    /\ osd.pc = "setup"
    /\ \/ \E conf \in BOOLEAN :
            osd' = [osd EXCEPT !.surface = "live", !.configured = conf,
                               !.pc = "test"]
       \/ osd' = OverlayErr(osd)
    /\ UNCHANGED <<coreVars, notOsd>>

\* handle_signal: SIGTERM or SIGINT is delivered
handle_signal ==
    /\ osd.pc \notin {"idle", "exited"}
    /\ ~osd.SHOULD_EXIT
    /\ osd' = [osd EXCEPT !.SHOULD_EXIT = TRUE]
    /\ UNCHANGED <<coreVars, notOsd>>

\* while state.running && !SHOULD_EXIT.load(Relaxed)
OverlayTest ==
    /\ osd.pc = "test"
    /\ IF osd.running /\ ~osd.SHOULD_EXIT
       THEN osd' = [osd EXCEPT !.pc = "frame"]
       ELSE osd' = [osd EXCEPT !.pc = "cleanup",
                               !.observed = osd.SHOULD_EXIT]
    /\ UNCHANGED <<coreVars, notOsd>>

SatInc(n, max) == IF n < max THEN n + 1 ELSE n

\* present_frame: an io error drops the frame, else the old buffer is
\* destroyed and a new one attached
Present(o) ==
    {o, [o EXCEPT !.buffer = "live",
                  !.frames = SatInc(@, MaxFrames),
                  !.after = IF o.observed THEN SatInc(@, MaxFrames) ELSE @]}

\* one turn of the loop body: flush()?, poll, read, dispatch_pending()?
\* (a Configure or a Closed event may arrive), `continue` while not
\* configured, else update, render and present_frame
OverlayFrame ==
    /\ osd.pc = "frame"
    /\ \/ osd' = OverlayErr(osd)
       \/ \E conf, closed \in BOOLEAN :
            LET o == [osd EXCEPT !.configured = @ \/ conf,
                                 !.running = @ /\ ~closed]
            IN  IF ~o.configured
                THEN osd' = [o EXCEPT !.pc = "test"]
                ELSE \E n \in Present(o) : osd' = [n EXCEPT !.pc = "test"]
    /\ UNCHANGED <<coreVars, notOsd>>

\* pool.destroy() and the destroys of layer surface, surface and buffer,
\* let _ = remove_file(pid_file_path()), Ok(())
OverlayCleanup ==
    /\ osd.pc = "cleanup"
    /\ osd' = [osd EXCEPT !.surface = "destroyed",
                          !.buffer = IF @ = "live" THEN "destroyed" ELSE @,
                          !.pidFile = FALSE,
                          !.pc = "exited", !.result = "Ok"]
    /\ UNCHANGED <<coreVars, notOsd>>

\* the overlay program has been started and has installed its handlers
OverlaySpecInit ==
    /\ LockInit
    /\ AppStart("Toggle", FALSE)
    /\ ToolIdleExcept("osd")
    /\ osd = [OverlayInit EXCEPT !.pc = "start"]

OverlayNext ==
    \/ OverlayStart
    \/ OverlaySetup
    \/ handle_signal
    \/ OverlayTest
    \/ OverlayFrame
    \/ OverlayCleanup

OverlaySpec == OverlaySpecInit /\ [][OverlayNext]_vars

TypeOK ==
    /\ lockFile \in [exists : BOOLEAN, inode : 0..NumProcs, content : 0..NumProcs]
    /\ pc \in [Procs -> {"init", "killed"} \cup AcquiringPcs \cup OwnerPcs
                          \cup ExitedPcs \cup ReusedPcs]
    /\ outcome \in [Procs -> {"none", "Owned", "SignalSent", "ErrConfig", "ErrIo",
                              "ErrSignal"}]
    /\ received \in [Procs -> 0..NumProcs]
    /\ dropped \in [Procs -> {"no", "removed", "absent", "panic"}]
    /\ state \in {"Idle", "Recording", "Transcribing", "Injecting"}
    /\ result \in {"none", "Ok", "Err"}
    /\ Len(sentIn) = Len(hotkey_rx)
    /\ abortSig \in {"none", "Idle", "Recording", "Transcribing", "Injecting"}
    /\ sess.stop \in {"none", "ok", "empty"}
    /\ sess.text \in {"none", "empty", "text", "err"}
    /\ sess.calls \in 0..1
    /\ leaked \in BOOLEAN
    /\ ses.state \in {"Idle", "Recording", "Transcribing", "Injecting", "Terminated"}
    /\ ses.preload \in {"none", "running", "ok", "err"}
    /\ ses.overlay \in {"none", "nohandle", "running", "exited"}
    /\ ses.loads \in 0..2 /\ ses.terms \in 0..2
    /\ appPc \in {"monitor_new", "select", "play_start", "wait_start", "rec_start", "play_stop",
                  "wait_stop", "rec_stop", "transcribe", "inject", "returning",
                  "joining", "done"}
    /\ Len(hotkey_rx) <= MaxEvents
    /\ buffer \in 0..MaxSamples
    /\ recStream \in {"none", "live"}
    /\ fbPc \in {"recv", "playing", "exited"}

\* ------------------------------------------------------------------------
\* Claims about the pid lock (specification Spec)
\* ------------------------------------------------------------------------

\* the step in which acquire_or_signal_lock of p returns (Ok or Err)
AcquireReturns(p) ==
    /\ pc[p] \in AcquiringPcs
    /\ pc'[p] \in OwnerPcs \cup ExitedPcs

\* C1: at most one live process at a time holds a PidLock, under every
\* interleaving of concurrently started invocations.
C1_AtMostOneOwner == Cardinality(LiveOwners) <= 1

\* C2: when a first invocation held the lock (file created, PID written) at
\* the start of a second one and is still alive when the second one's
\* acquisition returns, the second one returns by sending one SIGUSR1 to the
\* first, without owning the lock and without entering the session.
C2_SecondSignalsFirst ==
    [][\A q \in Procs : \A p \in Procs :
        (/\ AcquireReturns(q)
         /\ outcome'[q] \notin {"ErrIo", "ErrSignal"}
         /\ p \in acq[q].ownersAtStart
         /\ pc[p] \in OwnerPcs)
        => (/\ outcome'[q] = "SignalSent"
            /\ pc'[q] = "exit_ok"
            /\ acq[q].pid = p
            /\ received'[p] = received[p] + 1)]_vars

\* C3: an invocation whose first create attempt finds a lock file recording
\* the PID of no live process, and that no other invocation's acquisition
\* interferes with, removes the file once, makes exactly one more create
\* attempt and ends as the owner.
C3_StaleLockRecovered ==
    [][\A p \in Procs :
        (/\ AcquireReturns(p)
         /\ outcome'[p] # "ErrIo"
         /\ acq[p].firstSaw = "dead"
         /\ ~acq[p].interfered)
        => (/\ outcome'[p] = "Owned"
            /\ pc'[p] = "owner"
            /\ acq[p].attempts = 2
            /\ acq[p].removes = 1)]_vars

C3_Witness ==
    \E p \in Procs :
        /\ pc[p] \in OwnerPcs
        /\ acq[p].firstSaw = "dead"
        /\ ~acq[p].interfered
        /\ acq[p].attempts = 2
        /\ acq[p].removes = 1

\* C4: no invocation makes a third create attempt; an acquisition that
\* discarded a lock file has made exactly two create attempts when it returns;
\* and an acquisition that returns neither as owner nor after a sent Toggle
\* returns an error (exit status non-zero), the process neither holding the
\* lock nor entering the session.
C4_RetriedExactlyOnce ==
    [][\A p \in Procs :
        /\ acq'[p].attempts <= 2
        /\ pc'[p] \in OwnerPcs => outcome'[p] = "Owned"
        /\ AcquireReturns(p) =>
            /\ (acq[p].removes >= 1 /\ pc[p] # "create") => acq[p].attempts = 2
            /\ outcome'[p] \notin {"Owned", "SignalSent"} =>
                    /\ outcome'[p] \in {"ErrConfig", "ErrIo", "ErrSignal"}
                    /\ pc'[p] = "exit_err"]_vars

C4_Witness ==
    \E p \in Procs : pc[p] = "exit_err" /\ outcome[p] = "ErrConfig"

\* C5: when kill() fails with ESRCH the invocation removes the lock file and
\* makes a further create attempt, on whichever attempt the failure occurred,
\* and ends as the owner when no other invocation interfered.
C5_EsrchRetriesAcquisition ==
    [][\A p \in Procs :
        (/\ AcquireReturns(p)
         /\ outcome'[p] \notin {"ErrIo", "ErrSignal"}
         /\ acq[p].esrchAt # 0)
        => (/\ acq[p].attempts > acq[p].esrchAt
            /\ ~acq[p].interfered => outcome'[p] = "Owned")]_vars

\* C6: once a process that had acquired the lock has exited (Ok or Err of
\* run_default), the lock file it created is not at the lock path.
C6_LockGoneAfterOwnerExit ==
    \A p \in Procs :
        (pc[p] \in ExitedPcs /\ outcome[p] = "Owned")
        => ~(lockFile.exists /\ lockFile.inode = p)

C6_Witness ==
    /\ \E p \in Procs : pc[p] = "exit_err" /\ outcome[p] = "Owned"
    /\ \E p \in Procs : pc[p] = "exit_ok" /\ outcome[p] = "Owned"

\* C7: the lock file of a live owner is changed or removed only by that
\* owner, and an owner's release leaves a file created by another invocation
\* in place.
C7_OnlyOwnerTouchesLock ==
    [][\A p \in Procs : \A q \in Procs :
        /\ (/\ lockFile.exists /\ lockFile.inode = p /\ pc[p] \in OwnerPcs
             /\ lockFile' # lockFile
             /\ pc'[q] # pc[q]) => q = p
        /\ (/\ pc[q] \in OwnerPcs /\ pc'[q] \in ExitedPcs
             /\ lockFile.exists /\ lockFile.inode # q) => lockFile' = lockFile]_vars

\* C8: release is idempotent: dropping the PidLock when the file is already
\* absent is not an error, and a second release leaves what the first left.
C8_ReleaseIdempotent ==
    LET once  == PidLockDrop(lockFile)
        twice == PidLockDrop(once.file)
    IN  /\ twice.file = once.file
        /\ ~twice.panicked
        /\ \A p \in Procs : dropped[p] # "panic"

C8_Witness ==
    \E p \in Procs : dropped[p] = "absent" /\ pc[p] = "exit_ok" /\ ~lockFile.exists

\* ------------------------------------------------------------------------
\* Claims about the session controller (specification AppSpec)
\* ------------------------------------------------------------------------

\* a start cue is being played or still waits in the feedback channel
StartCueInFlight ==
    \/ fbCur.sound = "start"
    \/ \E i \in 1..Len(cmds) : cmds[i].sound = "start"

\* the step in which recorder.start() opens the input stream
CaptureBegins == appPc = "rec_start" /\ recStream' = "live"

\* C9: audio capture is stopped before the stop cue: recorder.stop() has
\* completed when feedback.play_stop() is called, and the input stream is not
\* live when the feedback thread starts to play the stop sound.
C9_CaptureStopsBeforeStopCue ==
    [][/\ (appPc = "play_stop" /\ appPc' # "play_stop") => recStream = "none"
       /\ (fbPc = "recv" /\ fbPc' = "playing" /\ fbCur'.sound = "stop")
              => recStream = "none"]_vars

StateRank(s) ==
    CASE s = "Idle" -> 0
      [] s = "Recording" -> 1
      [] s = "Transcribing" -> 2
      [] OTHER -> 3

\* C11: the controller state only moves forward in the order Idle, Recording,
\* Transcribing, Injecting (or ends); no step takes it to an earlier state.
C11_StateOnlyMovesForward == [][StateRank(state') >= StateRank(state)]_vars

\* the step in which recorder.start() returns an error
StartFails == appPc = "rec_start" /\ recStream' # "live"

\* C12: when starting audio capture fails, the controller has not been in
\* Recording for that session, and the session ends at once: App::run returns
\* with a failure.
C12_StartFailureEndsSession ==
    [][StartFails => (state # "Recording" /\ appPc' = "returning" /\ result' = "Err")]_vars

\* C13: when the shutdown signal fired while the controller was Recording
\* and no hotkey event that was sent before it is waiting, the next thing the
\* controller does is end the session: the shutdown branch is taken, run
\* returns Ok, and recorder.stop() (hence transcribe and inject) is not
\* called.
C13_AbortWhileRecording ==
    [][(/\ appPc = "select" /\ state = "Recording"
        /\ shutdown /\ abortSig = "Recording"
        /\ hotkey_rx # <<>> => Head(sentIn).late
        /\ appPc' # appPc)
          => (/\ appPc' = "returning" /\ result' = "Ok"
              /\ sess'.stop = "none" /\ sess'.text = "none"
              /\ sess'.calls = 0)]_vars

\* C14: a shutdown signal that fired while the controller was Transcribing or
\* Injecting is never acted on: the shutdown branch of select! is not taken
\* for it later.
C14_AbortAfterToggleIgnored ==
    [][(appPc = "select" /\ shutdown /\ ~shutdown')
          => abortSig \notin {"Transcribing", "Injecting"}]_vars

\* C15: when the Recording wait finds both a shutdown signal that fired during
\* Recording and a stopping hotkey event pending, the branch taken is the one
\* whose event fired first.
C15_FirstFiredIsTaken ==
    [][(/\ appPc = "select" /\ state = "Recording"
        /\ shutdown /\ abortSig = "Recording"
        /\ hotkey_rx # <<>>
        /\ MatchArm(state, Head(hotkey_rx), hotkey_mode) = "stop"
        /\ appPc' # appPc)
          => IF Head(sentIn).late THEN appPc' = "returning"
                                  ELSE appPc' = "play_stop"]_vars

\* C16: a hotkey event sent while the controller was Transcribing or Injecting
\* is ignored: when it is received it changes neither the state nor what the
\* controller does next.
C16_ToggleWhileBusyIgnored ==
    [][(/\ appPc = "select" /\ hotkey_rx # <<>>
        /\ hotkey_rx' = Tail(hotkey_rx)
        /\ Head(sentIn).busy)
          => (state' = state /\ appPc' = "select")]_vars

InjectInvoked == appPc = "inject" /\ appPc' # "inject"

\* C18: inject is called at most once per session, only in state Injecting,
\* and only with the non-empty text that transcribe returned for the buffer
\* recorder.stop() returned in this session.
C18_DeliverOnceNonEmpty ==
    [][InjectInvoked =>
          /\ state = "Injecting"
          /\ sess.calls = 0 /\ sess'.calls = 1
          /\ sess.stop = "ok" /\ audio > 0
          /\ sess.text = "text" /\ sess'.arg = "text"]_vars

C18_Witness ==
    /\ sess.calls = 1 /\ sess.arg = "text"
    /\ sess.spawn /\ sess.paste
    /\ state = "Idle"

TranscribeFails == appPc = "transcribe" /\ sess'.text = "err"

\* C20: when transcription fails the session ends: App::run returns with a
\* failure, and inject is not called.
C20_TranscriptionFailureExits ==
    [][TranscribeFails =>
          (appPc' = "returning" /\ result' = "Err" /\ sess'.calls = 0)]_vars

\* C21: a delivery failure is not escalated: whether inject returns Ok or Err,
\* the controller leaves Injecting for its end (App::run returns) and the
\* outcome is success.
C21_DeliveryNeverEscalated ==
    [][appPc = "inject" => (appPc' = "returning" /\ result' = "Ok")]_vars

\* C22: once the stop event has been consumed (recorder.stop() has run), the
\* controller is on its way to the end on every branch: it does not go back to
\* waiting for events, and when the process has exited the lock file is gone.
C22_ToggleLeadsToTermination ==
    sess.stop # "none" =>
        /\ appPc \in {"transcribe", "inject", "returning", "joining", "done"}
        /\ (pc[AppOwner] \in ExitedPcs => ~lockFile.exists)

\* the step in which libc::kill fails with an errno other than ESRCH
KillDenied(p) ==
    /\ pc[p] = "kill"
    /\ KillErrno(acq[p].pid) = "EPERM"
    /\ pc'[p] # pc[p]

\* C29: when sending the Toggle fails for a reason other than ESRCH, the
\* acquisition returns an error at once: the lock file is left as it is, no
\* further create attempt is made, no signal is delivered and the invocation
\* does not become the owner.
C29_SignalErrorIsFatal ==
    [][\A p \in Procs :
        KillDenied(p) =>
            /\ lockFile' = lockFile
            /\ pc'[p] = "exit_err"
            /\ outcome'[p] = "ErrSignal"
            /\ dropped'[p] = "no"
            /\ \A q \in Procs : q # p => received'[q] = received[q]]_vars

C29_Witness ==
    \E p \in Procs :
        /\ pc[p] = "exit_err" /\ outcome[p] = "ErrSignal"
        /\ lockFile.exists /\ lockFile.content \in Procs
        /\ pc[lockFile.content] = "otheruser"

\* C30: SIGUSR1 is only ever sent to a process that owns the session lock at
\* that moment, never to a process that only has the recorded pid.
C30_ToggleOnlyToOwner ==
    [][\A p \in Procs :
        (pc[p] = "kill" /\ outcome'[p] = "SignalSent")
        => pc[acq[p].pid] \in OwnerPcs]_vars

\* C28: the buffer is drained only after capture has been stopped, and no
\* callback appends to it once recorder.stop() has run: samples are appended
\* only while the recorder holds a running stream.
C28_NoAppendAfterStop ==
    [][/\ buffer' > buffer => recStream = "live"
       /\ (appPc = "rec_stop" /\ appPc' # "rec_stop") => ~leaked']_vars

\* the step in which q's kill reaches the owner that waits in Recording
ToggleSent(q) ==
    /\ pc[q] = "kill" /\ pc'[q] # "kill"
    /\ acq[q].pid = AppOwner
    /\ pc[AppOwner] = "app"
    /\ ses.pc = "wait"

AfterTerminatePcs == {"osd_wait", "discard", "capture_stop", "stop_cue", "join",
                      "transcribe", "inject", "teardown", "done"}

C39_DestOnlyAfterCompleteBody ==
    [][/\ (dl'.dest /\ ~dl.dest) =>
            /\ dl.pc = "rename" /\ dl.body = 0
            /\ dl.part = dl.existing_len + dl.sent
            /\ dl'.destLen = dl.part
       /\ dl.dest => (dl'.dest /\ dl'.destLen = dl.destLen)
       /\ dl'.result \in {"Err", "Killed"} => dl'.dest = dl.dest
       /\ (dl.pc = "open" /\ dl'.pc = "stream") =>
            /\ dl'.part \in {0, dl.part}
            /\ (dl'.part > 0) => (dl.status = 206 /\ dl'.part = dl.original_len)
            /\ dl.status # 206 => dl'.part = 0]_vars

C39_Witness ==
    /\ dl.dest /\ dl.result = "Ok"
    /\ dl.status = 206
    /\ dl.kept > 0
    /\ dl.destLen = MaxBytes

\* C40: validated_existing_len, as download_model applies it to the length
\* of the .part file and the response status: with a length above 0 it gives
\* the length for 206, 0 for 200 and an error otherwise; with length 0 it
\* gives 0 for a success status and an error otherwise; so the offset is 0
\* or the length.
C40_ValidatedLen ==
    /\ dl.valid = "ok" =>
        /\ dl.existing_len \in {0, dl.original_len}
        /\ dl.original_len > 0 =>
              \/ dl.status = 206 /\ dl.existing_len = dl.original_len
              \/ dl.status = 200 /\ dl.existing_len = 0
        /\ dl.original_len = 0 => (is_success(dl.status) /\ dl.existing_len = 0)
    /\ dl.valid = "err" =>
        /\ dl.result = "Err"
        /\ dl.original_len > 0 => dl.status \notin {200, 206}
        /\ dl.original_len = 0 => ~is_success(dl.status)

C40_Witness ==
    /\ dl.valid = "ok"
    /\ dl.original_len > 0
    /\ dl.status = 200
    /\ dl.existing_len = 0

C31_PressedReleasedAlternate ==
    [][ LET sent == Len(mon'.out) > Len(mon.out)
            e == mon'.out[Len(mon'.out)]
            ev == mon'.ev
        IN  /\ Len(mon'.out) \in {Len(mon.out), Len(mon.out) + 1}
            /\ SubSeq(mon'.out, 1, Len(mon.out)) = mon.out
            /\ sent =>
                 /\ e = IF Len(mon.out) % 2 = 0 THEN "Pressed" ELSE "Released"
                 /\ ev.type = "KEY" /\ ev.key \in mon.target_keys
                 /\ e = "Pressed" =>
                      /\ ev.value = 1
                      /\ mon.target_keys \subseteq mon'.held_keys
                      /\ ~(mon.target_keys \subseteq mon.held_keys)
                 /\ e = "Released" =>
                      /\ ev.value = 0
                      /\ mon.combo_active /\ ~mon'.combo_active
            /\ (mon'.n > mon.n /\ (ev.type # "KEY" \/ ev.value = 2
                                      \/ ev.key \notin mon.target_keys)) =>
                 (~sent /\ mon'.held_keys = mon.held_keys
                        /\ mon'.combo_active = mon.combo_active)
      ]_vars

C31_Witness ==
    /\ Cardinality(mon.target_keys) = 2
    /\ mon.out = <<"Pressed", "Released", "Pressed">>

\* C32: when App::run takes an event from hotkey_rx: a press in Idle starts
\* a recording in both modes; in toggle mode a press in Recording stops it
\* and a Released changes nothing; in push-to-talk mode a Released in
\* Recording stops it and a press in Recording changes nothing; every other
\* (state, event) pair leaves the state and the recorder as they are.
C32_ModeTable ==
    [][ (appPc = "select" /\ hotkey_rx # <<>> /\ hotkey_rx' = Tail(hotkey_rx)) =>
          LET e == Head(hotkey_rx)
              starts == state = "Idle" /\ e = "Pressed"
              stops == /\ state = "Recording"
                       /\ \/ e = "Pressed" /\ hotkey_mode = "Toggle"
                          \/ e = "Released" /\ hotkey_mode = "PushToTalk"
          IN  /\ starts => (state' = "Recording" /\ appPc' = "play_start")
              /\ stops => (state' = "Transcribing" /\ appPc' = "play_stop")
              /\ (e = "Released" /\ hotkey_mode = "Toggle") => state' = state
              /\ (e = "Pressed" /\ state = "Recording"
                    /\ hotkey_mode = "PushToTalk") => state' = state
              /\ ~(starts \/ stops) =>
                    /\ state' = state
                    /\ appPc' = "select"
                    /\ UNCHANGED recVars
      ]_vars

\* a Released event was ignored by a toggle-mode recording
C32_Witness ==
    /\ hotkey_mode = "Toggle"
    /\ state = "Recording"
    /\ appPc = "select"
    /\ recStream = "live"
    /\ produced >= 2
    /\ hotkey_rx = <<>>

\* C33: whenever run_wl_copy_with_timeout has returned after it spawned the
\* helper, the helper has exited and its status has been collected.
C33_HelperReaped ==
    (wl.copy # "none" /\ wl.helper # "none") =>
        (wl.helper = "exited" /\ wl.reaped)

\* C34 as stated: run_wl_copy_with_timeout returns Ok exactly when the helper
\* was spawned, took the text and exited with success before the deadline;
\* after an error the paste combination is never emitted.
C34_OkIffExitBeforeDeadline ==
    wl.copy # "none" =>
        /\ wl.copy = "Ok" <=>
              /\ wl.helper = "exited" /\ wl.written
              /\ wl.status = "ok" /\ ~wl.late
        /\ wl.copy = "Err" => ~wl.pasted

\* C34, amended: run_wl_copy_with_timeout returns Ok exactly when the helper
\* was spawned, took the text and a turn of the loop collected a success
\* status from it; a spawn failure, a write error, a non-zero status and a
\* helper found running after the deadline (which is then killed and waited
\* for) give an error, and after an error nothing is pasted.
C34_OkIffStatusCollected ==
    wl.copy # "none" =>
        /\ wl.copy = "Ok" <=>
              /\ wl.helper = "exited" /\ wl.written
              /\ wl.status = "ok" /\ wl.reaped
        /\ wl.helper = "none" => (wl.copy = "Err" /\ wl.why = "spawn")
        /\ (wl.reaped /\ wl.status = "fail") =>
              (wl.copy = "Err" /\ wl.why = "exit")
        /\ wl.status = "killed" =>
              /\ wl.copy = "Err" /\ wl.why = "timeout"
              /\ wl.deadline = "passed" /\ wl.reaped
        /\ wl.copy = "Err" => (~wl.pasted /\ wl.result = "Err")

\* the helper exited with success after the deadline and the text was pasted
C34_Witness ==
    /\ wl.copy = "Ok"
    /\ wl.late
    /\ wl.pasted

\* the caller is inside play_start or play_stop, waiting on rx
InPlayWait == appPc \in {"wait_start", "wait_stop"}

\* C35: once the feedback thread is through with the command of a waiting
\* caller, played or failed, the completion message is there for the caller;
\* a completion message exists only for the caller that waits for it, so
\* none is left over for a later wait; play_start and play_stop return with
\* the message or by the timeout, which leaves the command without a
\* waiter; with feedback disabled no command is ever sent and nothing waits.
C35_CompletionSignalled ==
    /\ [](/\ (InPlayWait /\ cmds = <<>> /\ fbPc = "recv") => doneSig
          /\ doneSig => InPlayWait
          /\ ~enabled => (cmds = <<>> /\ fbPc # "playing" /\ ~InPlayWait))
    /\ [][ /\ (InPlayWait /\ ~InPlayWait') =>
                \/ doneSig /\ ~doneSig'
                \/ /\ ~doneSig
                   /\ IF cmds # <<>> THEN ~cmds'[Len(cmds')].rxAlive
                                     ELSE ~fbCur'.rxAlive
           /\ (doneSig' /\ ~doneSig) =>
                \/ fbPc = "playing" /\ fbCur.rxAlive /\ fbPc' = "recv"
                \/ /\ fbPc = "recv" /\ cmds # <<>> /\ Head(cmds).rxAlive
                   /\ cmds' = Tail(cmds) /\ fbPc' = "recv"
       ]_vars

\* opening the output stream failed and the waiting caller has its signal
C35_Witness ==
    /\ appPc = "wait_start"
    /\ doneSig
    /\ ~outStream
    /\ fbPc = "recv"

\* what is left for the feedback thread to do before it has exited
FbWork ==
    2 * Len(cmds) + (IF fbPc = "playing" THEN 1 ELSE 0)
                  + (IF fbPc = "exited" THEN 0 ELSE 1)

\* C36: during FeedbackPlayer::drop the channel is closed and a step of the
\* feedback thread or the return of join is always possible; no command is
\* added, every step of the thread reduces what is left for it to do, the
\* thread leaves its loop only with every queued command handled, and drop
\* returns only when the thread has exited.
C36_DropTerminates ==
    /\ [](appPc = "joining" =>
            /\ ~senderOpen
            /\ ENABLED (FbRecv \/ FbFinish \/ FbExit \/ JoinFeedback))
    /\ [][ /\ appPc = "joining" =>
                /\ FbWork' <= FbWork
                /\ <<cmds, fbPc, fbCur>>' # <<cmds, fbPc, fbCur>> => FbWork' < FbWork
                /\ appPc' = "done" => (fbPc = "exited" /\ cmds = <<>>)
           /\ (fbPc' = "exited" /\ fbPc # "exited") => (cmds = <<>> /\ ~senderOpen)
       ]_vars

\* drop has closed the channel while a command is still queued
C36_Witness ==
    /\ appPc = "joining"
    /\ cmds # <<>>
    /\ fbPc # "exited"

\* C37: an overlay that has received SIGTERM or SIGINT and has exited has
\* destroyed its surface and its buffer and removed its pid file, and it
\* has presented no frame after the loop test saw the request.
C37_OverlayCleansUpAfterSignal ==
    /\ (osd.SHOULD_EXIT /\ osd.pc = "exited") =>
          /\ ~osd.pidFile
          /\ osd.surface # "live"
          /\ osd.buffer # "live"
    /\ osd.after = 0

====
